---- MODULE Spec2Model ----
(***************************************************************************)
(* Rim-Radio cover downloader: the candidate search / filter / select      *)
(* pipeline of rim_radio_downloader_fastmode_selectable_genrefolders.py,   *)
(* its cached HTTP helpers, and the export naming of Sandwicher.py.        *)
(*                                                                         *)
(* Python values are represented as follows.                               *)
(*   - a string is a sequence of one-character strings;                    *)
(*   - an optional value (title, year) is <<>> for None and <<v>> for v;   *)
(*   - an image URL is an atomic string, NoneUrl standing for None and ""  *)
(*     for the empty string (both falsy);                                  *)
(*   - a float score is a fraction <<num, den>> with den > 0.              *)
(***************************************************************************)
EXTENDS Integers, Sequences, FiniteSets, TLC

VARIABLES
    fn,          \* the pure-function call under test: inputs and result
    cfg,         \* the option variables of the App window
    files,       \* the output folder: path -> content
    tree,        \* status column of the table, per row
    queue,       \* App.queue: callbacks from the worker to the GUI thread
    gui,         \* the GUI thread: position in _poll_queue, open dialog
    stop_flag,   \* App.stop_flag
    status_var,  \* App.status_var
    w,           \* the worker thread: position and locals of _worker_thread
    reply,       \* result_q of the current escalation: None or Some(choice)
    hist,        \* per row, the row statuses the worker has put in this run
    parts,       \* provider completions of the current round, in order
    http,        \* _json_cache, _bytes_cache and the calls of the HTTP helpers
    comp         \* Sandwicher.py: output directory, runs, target rectangle

wvars == <<cfg, files, tree, queue, gui, stop_flag, status_var, w, reply, hist, parts>>
vars == <<fn, http, comp, cfg, files, tree, queue, gui, stop_flag, status_var, w, reply, hist,
          parts>>

----------------------------------------------------------------------------
(* Bounds of the checked input spaces. *)

MaxDedupLen == 3
MaxFilterLen == 3
MaxPickLen == 2

----------------------------------------------------------------------------
(* Python value helpers. *)

None == <<>>
Some(v) == <<v>>
Val(o) == o[1]
NoneUrl == "<None>"

Abs(n) == IF n < 0 THEN -n ELSE n
Max2(a, b) == IF a >= b THEN a ELSE b

SeqsUpTo(S, n) == UNION {[1..k -> S] : k \in 0..n}

\* Python truthiness of a URL value: None and "" are falsy.
UrlTruthy(u) == u # NoneUrl /\ u # ""

\* Python truthiness of an optional int: None and 0 are falsy.
IntTruthy(o) == o # None /\ Val(o) # 0

\* Comparison of scores held as fractions.
ScoreGT(x, y) == x[1] * y[2] > y[1] * x[2]
ScoreGE(x, y) == x[1] * y[2] >= y[1] * x[2]
ScoreEQ(x, y) == x[1] * y[2] = y[1] * x[2]
Zero == <<0, 1>>
One == <<1, 1>>
AUTOPICK_MIN == <<92, 100>>

----------------------------------------------------------------------------
(* str.lower() and re.sub(r"[^a-z0-9]+", "", s) *)

LowerAlnum == {"a","b","c","d","e","f","g","h","i","j","k","l","m","n","o","p",
               "q","r","s","t","u","v","w","x","y","z",
               "0","1","2","3","4","5","6","7","8","9"}

UpperToLower == [c \in {"A","B","C","D","E","F","G","H","I","J","K","L","M",
                        "N","O","P","Q","R","S","T","U","V","W","X","Y","Z"} |->
                 CASE c = "A" -> "a" [] c = "B" -> "b" [] c = "C" -> "c"
                   [] c = "D" -> "d" [] c = "E" -> "e" [] c = "F" -> "f"
                   [] c = "G" -> "g" [] c = "H" -> "h" [] c = "I" -> "i"
                   [] c = "J" -> "j" [] c = "K" -> "k" [] c = "L" -> "l"
                   [] c = "M" -> "m" [] c = "N" -> "n" [] c = "O" -> "o"
                   [] c = "P" -> "p" [] c = "Q" -> "q" [] c = "R" -> "r"
                   [] c = "S" -> "s" [] c = "T" -> "t" [] c = "U" -> "u"
                   [] c = "V" -> "v" [] c = "W" -> "w" [] c = "X" -> "x"
                   [] c = "Y" -> "y" [] c = "Z" -> "z"]

LowerChar(c) == IF c \in DOMAIN UpperToLower THEN UpperToLower[c] ELSE c
Lower(s) == [i \in 1..Len(s) |-> LowerChar(s[i])]
IsLowerAlnum(c) == c \in LowerAlnum
StripNonAlnum(s) == SelectSeq(s, IsLowerAlnum)

----------------------------------------------------------------------------
(* difflib.SequenceMatcher(None, a, b).ratio() without junk: the matching  *)
(* blocks are found by taking the longest common block of the two ranges   *)
(* (earliest start in a, then earliest start in b, among the longest) and  *)
(* recursing on the pieces to its left and to its right.                   *)

RECURSIVE CommonPrefixLen(_, _, _, _, _, _)
CommonPrefixLen(a, b, i, j, ahi, bhi) ==
    IF i <= ahi /\ j <= bhi /\ a[i] = b[j]
    THEN 1 + CommonPrefixLen(a, b, i + 1, j + 1, ahi, bhi)
    ELSE 0

\* Ranges are 1-based and inclusive: a[alo..ahi], b[blo..bhi].
\* Result <<i, j, k>>; k = 0 when the ranges share no element.
find_longest_match(a, b, alo, ahi, blo, bhi) ==
    LET Pairs == (alo..ahi) \X (blo..bhi)
        L(p) == CommonPrefixLen(a, b, p[1], p[2], ahi, bhi)
        Lens == {L(p) : p \in Pairs}
        k == IF Lens = {} THEN 0 ELSE CHOOSE m \in Lens : \A n \in Lens : m >= n
    IN IF k = 0 THEN <<alo, blo, 0>>
       ELSE LET Best == {p \in Pairs : L(p) = k}
                i == CHOOSE x \in {p[1] : p \in Best} :
                        \A y \in {p[1] : p \in Best} : x <= y
                j == CHOOSE x \in {p[2] : p \in {q \in Best : q[1] = i}} :
                        \A y \in {p[2] : p \in {q \in Best : q[1] = i}} : x <= y
            IN <<i, j, k>>

\* Sum of the sizes of the matching blocks of a[alo..ahi] and b[blo..bhi].
RECURSIVE MatchedSize(_, _, _, _, _, _)
MatchedSize(a, b, alo, ahi, blo, bhi) ==
    IF alo > ahi \/ blo > bhi THEN 0
    ELSE LET m == find_longest_match(a, b, alo, ahi, blo, bhi)
             i == m[1]
             j == m[2]
             k == m[3]
         IN IF k = 0 THEN 0
            ELSE k + MatchedSize(a, b, alo, i - 1, blo, j - 1)
                   + MatchedSize(a, b, i + k, ahi, j + k, bhi)

\* ratio() that returns 0.0 when both sequences are empty.
Ratio_EmptyIsZero(a, b) ==
    LET length == Len(a) + Len(b)
    IN IF length = 0 THEN Zero
       ELSE <<2 * MatchedSize(a, b, 1, Len(a), 1, Len(b)), length>>

Ratio(a, b) ==
    LET length == Len(a) + Len(b)
    IN IF length = 0 THEN One
       ELSE <<2 * MatchedSize(a, b, 1, Len(a), 1, Len(b)), length>>

\* title_similarity(a, b); a and b are optional strings.
title_similarity(a, b) ==
    LET la == Lower(IF a = None THEN <<>> ELSE Val(a))
        lb == Lower(IF b = None THEN <<>> ELSE Val(b))
    IN IF la = <<>> \/ lb = <<>> THEN Zero
       ELSE Ratio(StripNonAlnum(la), StripNonAlnum(lb))

----------------------------------------------------------------------------
(* soft_year_filter(candidates, target_year, tol) *)

\* Variant that filters nothing.
soft_year_filter_Off(candidates, target_year, tol) == candidates

\* Variant without the clamp of the tolerance to >= 0.
soft_year_filter_NoClamp(candidates, target_year, tol) ==
    IF target_year = None THEN candidates
    ELSE LET Y == Val(target_year)
             Keep(c) == c.year = None \/ Abs(Val(c.year) - Y) <= tol
         IN SelectSeq(candidates, Keep)

soft_year_filter(candidates, target_year, tol) ==
    IF target_year = None THEN candidates
    ELSE LET Y == Val(target_year)
             t == Max2(0, tol)
             Keep(c) == c.year = None \/ Abs(Val(c.year) - Y) <= t
         IN SelectSeq(candidates, Keep)

(* dedup_by_image(candidates): the loop over the candidates with its seen  *)
(* set and its output list.                                                *)

\* Variant of the loop that never records a URL as seen.
RECURSIVE DedupLoop_NoSeen(_, _, _, _)
DedupLoop_NoSeen(candidates, i, seen, out) ==
    IF i > Len(candidates) THEN out
    ELSE LET u == candidates[i].image
         IN IF UrlTruthy(u) /\ u \notin seen
            THEN DedupLoop_NoSeen(candidates, i + 1, seen, Append(out, candidates[i]))
            ELSE DedupLoop_NoSeen(candidates, i + 1, seen, out)

RECURSIVE DedupLoop(_, _, _, _)
DedupLoop(candidates, i, seen, out) ==
    IF i > Len(candidates) THEN out
    ELSE LET u == candidates[i].image
         IN IF UrlTruthy(u) /\ u \notin seen
            THEN DedupLoop(candidates, i + 1, seen \cup {u}, Append(out, candidates[i]))
            ELSE DedupLoop(candidates, i + 1, seen, out)

\* Variant that keeps every candidate.
dedup_by_image_KeepAll(candidates) == candidates

dedup_by_image(candidates) == DedupLoop(candidates, 1, {}, <<>>)

----------------------------------------------------------------------------
(* App._maybe_autopick(artist, album, year, candidates) with the           *)
(* configured year tolerance tolcfg.  best is None or Some(candidate).     *)

RECURSIVE AutopickLoop(_, _, _, _, _, _, _)
AutopickLoop(candidates, i, target_title, target_year, tol, best, best_score) ==
    IF i > Len(candidates) THEN <<best, best_score>>
    ELSE LET c == candidates[i]
             score == title_similarity(target_title, c.title)
             cy == c.year
         IN IF target_year # None /\ cy # None /\ Abs(Val(cy) - Val(target_year)) > tol
            THEN AutopickLoop(candidates, i + 1, target_title, target_year, tol,
                              best, best_score)
            ELSE IF ScoreGT(score, best_score)
            THEN AutopickLoop(candidates, i + 1, target_title, target_year, tol,
                              Some(c), score)
            ELSE AutopickLoop(candidates, i + 1, target_title, target_year, tol,
                              best, best_score)

AutopickTargetYear(year) == IF IntTruthy(year) THEN year ELSE None

maybe_autopick(album, year, candidates, tolcfg) ==
    IF candidates = <<>> THEN NoneUrl
    ELSE LET target_title == IF album = None THEN Some(<<>>) ELSE album
             target_year == AutopickTargetYear(year)
             r == AutopickLoop(candidates, 1, target_title, target_year, tolcfg,
                               None, Zero)
             best == r[1]
             best_score == r[2]
         IN IF best # None /\ ScoreGE(best_score, AUTOPICK_MIN)
            THEN Val(best).image
            ELSE NoneUrl

----------------------------------------------------------------------------
(* Strings of the checked input spaces. *)

S_OK_Comp == <<"O","K"," ","C","o","m","p">>
S_ok_comp == <<"o","k","-","c","o","m","p">>
S_okcomps == <<"o","k","c","o","m","p","s">>
S_okcom   == <<"o","k","c","o","m">>
S_bang    == <<"!","!">>
S_empty   == <<>>
S_tide    == <<"t","i","d","e">>
S_diet    == <<"d","i","e","t">>

Titles == {None, Some(S_ok_comp), Some(S_okcomps), Some(S_okcom)}
Albums == {Some(S_OK_Comp), Some(S_okcom), Some(S_empty)}
SimTitles == {None, Some(S_empty), Some(S_bang), Some(S_okcom), Some(S_OK_Comp),
              Some(S_tide), Some(S_diet)}
CandYears == {None, Some(0), Some(2), Some(4)}
QueryYears == {None, Some(0), Some(2)}
Tolerances == {-1, 0, 1}
Urls == {"A", "B", "C", "D"}
UrlAt == <<"A", "B", "C", "D">>

Candidate(u, t, y) == [image |-> u, title |-> t, year |-> y]

\* dedup_by_image inputs: any image value, two distinguishable titles.
DedupCands == {Candidate(u, t, None) :
                 u \in {NoneUrl, "", "A", "B"}, t \in {None, Some(S_okcom)}}
DedupInputs == SeqsUpTo(DedupCands, MaxDedupLen)

\* soft_year_filter inputs: any year, two distinguishable images.
FilterCands == {Candidate(u, None, y) : u \in {"A", "B"}, y \in CandYears}
FilterInputs == SeqsUpTo(FilterCands, MaxFilterLen)
FilterTargets == {None, Some(0), Some(1), Some(2)}
FilterTols == {-2, -1, 0, 1, 2}

\* _maybe_autopick inputs: lists as dedup_by_image leaves them (the i-th
\* candidate carries the i-th URL), any title and year.
PickMeta == Titles \X {None, Some(2), Some(4)}
PickInputs == {[i \in 1..Len(m) |-> Candidate(UrlAt[i], m[i][1], m[i][2])] :
                 m \in SeqsUpTo(PickMeta, MaxPickLen)}

----------------------------------------------------------------------------
(* slug(s): trim, "/" -> "_", whitespace runs -> "_", drop every character *)
(* outside [A-Za-z0-9._+-], keep the first 180 characters.                 *)

SLUG_MAX == 180
Whitespace == {" ", "\t", "\n", "\r"}
SlugAllowed == LowerAlnum \cup DOMAIN UpperToLower \cup {".", "_", "+", "-"}
IsSlugAllowed(c) == c \in SlugAllowed

RECURSIVE LStrip(_)
LStrip(s) ==
    IF s # <<>> /\ Head(s) \in Whitespace THEN LStrip(Tail(s)) ELSE s

RECURSIVE RStrip(_)
RStrip(s) ==
    IF s # <<>> /\ s[Len(s)] \in Whitespace
    THEN RStrip(SubSeq(s, 1, Len(s) - 1))
    ELSE s

Strip(s) == RStrip(LStrip(s))

ReplaceSlash(s) == [i \in 1..Len(s) |-> IF s[i] = "/" THEN "_" ELSE s[i]]

\* re.sub(r"\s+", "_", s): the first character of a run becomes "_" and the
\* rest of the run goes ("" marks a dropped position).
IsKept(c) == c # ""
CollapseWhitespace(s) ==
    LET m == [i \in 1..Len(s) |->
                IF s[i] \in Whitespace
                THEN (IF i > 1 /\ s[i - 1] \in Whitespace THEN "" ELSE "_")
                ELSE s[i]]
    IN SelectSeq(m, IsKept)

slug(s) ==
    LET s0 == IF s = None THEN <<>> ELSE Val(s)
        s1 == ReplaceSlash(Strip(s0))
        s2 == CollapseWhitespace(s1)
        s3 == SelectSeq(s2, IsSlugAllowed)
    IN SubSeq(s3, 1, IF Len(s3) < SLUG_MAX THEN Len(s3) ELSE SLUG_MAX)

\* slug inputs: every string of a few characters over a letter, a blank, a
\* tab, both path separators and a character outside the allowed set, and
\* strings around the length limit.
MaxSlugLen == 4
SlugChars == {"a", " ", "\t", "/", "\\", "!"}
LongName(n) == [i \in 1..n |-> "a"]
SlugInputs ==
    {None} \cup {Some(s) : s \in SeqsUpTo(SlugChars, MaxSlugLen)}
           \cup {Some(LongName(SLUG_MAX - 1) \o tl) :
                    tl \in {<<>>, <<"a">>, <<" ", "a">>, <<"/", "a", "a">>, <<"!", "a", "a">>}}

----------------------------------------------------------------------------
(* The year of a row or of a retry, and yr_int (line 584).  The local      *)
(* variable year is None, a str (from the CSV row) or an int (from a       *)
(* retry).                                                                 *)

Digits == <<"0", "1", "2", "3", "4", "5", "6", "7", "8", "9">>
IsDigit(c) == \E d \in 1..10 : Digits[d] = c
DigitVal(c) == (CHOOSE d \in 1..10 : Digits[d] = c) - 1

\* str.isdigit(): non-empty and digits only.
IsDigitStr(s) == s # <<>> /\ \A i \in 1..Len(s) : IsDigit(s[i])

RECURSIVE StrToInt(_)
StrToInt(s) ==
    IF s = <<>> THEN 0
    ELSE 10 * StrToInt(SubSeq(s, 1, Len(s) - 1)) + DigitVal(s[Len(s)])

YearNone == [k |-> "none"]
YearStr(s) == [k |-> "str", s |-> s]
YearInt(n) == [k |-> "int", n |-> n]

\* year = r["Year"].strip() if r["Year"] else None
RowYear(s) == IF s # <<>> THEN YearStr(Strip(s)) ELSE YearNone

\* yr_int = int(year) if year and str(year).isdigit() else None
YrInt(year) ==
    CASE year.k = "none" -> None
      [] year.k = "str" ->
            IF year.s # <<>> /\ IsDigitStr(year.s) THEN Some(StrToInt(year.s)) ELSE None
      [] year.k = "int" ->
            IF year.n # 0 /\ year.n > 0 THEN Some(year.n) ELSE None

\* yint = int(y) if y.isdigit() else None   (ChoiceDialog._retry)
RetryYear(y) ==
    LET t == Strip(y) IN IF IsDigitStr(t) THEN Some(StrToInt(t)) ELSE None

----------------------------------------------------------------------------
(* parse_year_from_date(d); d is an optional string.                       *)

\* Index of the first group of four digits of s, 0 when there is none.
FirstYearGroup(s) ==
    LET I == {i \in 1..(Len(s) - 3) : \A k \in 0..3 : IsDigit(s[i + k])}
    IN IF I = {} THEN 0 ELSE CHOOSE i \in I : \A j \in I : i <= j

\* re.search in place of re.match: the first four-digit group anywhere.
parse_year_from_date_Search(d) ==
    IF d = None \/ Val(d) = <<>> THEN None
    ELSE LET i == FirstYearGroup(Val(d))
         IN IF i = 0 THEN None ELSE Some(StrToInt(SubSeq(Val(d), i, i + 3)))

\* re.match(r"^(\d{4})", str(d)): four digits at the very start.
parse_year_from_date(d) ==
    IF d = None \/ Val(d) = <<>> THEN None
    ELSE IF FirstYearGroup(Val(d)) = 1 THEN Some(StrToInt(SubSeq(Val(d), 1, 4)))
    ELSE None

MaxDateLen == 6
DateChars == {"1", "9", "-", "x"}
DateInputs == {None} \cup {Some(s) : s \in SeqsUpTo(DateChars, MaxDateLen)}

----------------------------------------------------------------------------
(* provider_musicbrainz_caa: the loop over the releases of the MusicBrainz *)
(* answer (lines 211-231).  A release is its id (None when missing), its   *)
(* title and date, and what the network answers for each of its three      *)
(* size variants: Raise when http_get_bytes raises, else Some(n) for n      *)
(* bytes received.  A URL is <<mbid, suffix>>; cache is _bytes_cache, in   *)
(* which http_get_bytes keeps every answer it got.  The loop state st      *)
(* holds out, and next to it the fetches made (tried: release index,       *)
(* variant index, result) and the release each candidate came from (src).  *)

CaaSuffixes == <<"front-1200", "front", "front-500">>
Raise == None
MIN_BYTES == 400

CaaCandidate(r, url) ==
    [provider |-> "CoverArtArchive", image |-> url, thumb |-> url,
     title |-> r.title, artist |-> None, year |-> parse_year_from_date(r.date)]

\* http_get_bytes(url) with the network answering net.
CaaFetch(cache, url, net) == IF url \in DOMAIN cache THEN cache[url] ELSE net
CaaStore(cache, url, b) == IF b = Raise THEN cache ELSE (url :> b) @@ cache
Verified(b) == b # Raise /\ Val(b) # 0 /\ Val(b) > MIN_BYTES

\* The loop without the try of line 217: an exception ends the call.
RECURSIVE CaaLoop_NoTry(_, _, _, _, _)
CaaLoop_NoTry(releases, ri, si, cache, st) ==
    IF ri > Len(releases) THEN st
    ELSE IF releases[ri].id = None THEN CaaLoop_NoTry(releases, ri + 1, 1, cache, st)
    ELSE IF si > Len(CaaSuffixes) THEN CaaLoop_NoTry(releases, ri + 1, 1, cache, st)
    ELSE LET r == releases[ri]
             url == <<Val(r.id), CaaSuffixes[si]>>
             b == CaaFetch(cache, url, r.net[si])
             st1 == [st EXCEPT !.tried = Append(@, <<ri, si, b>>)]
         IN IF b = Raise THEN st1
            ELSE IF Verified(b)
            THEN CaaLoop_NoTry(releases, ri + 1, 1, CaaStore(cache, url, b),
                               [st1 EXCEPT !.out = Append(@, CaaCandidate(r, url)),
                                           !.src = Append(@, ri)])
            ELSE CaaLoop_NoTry(releases, ri, si + 1, CaaStore(cache, url, b), st1)

RECURSIVE CaaLoop(_, _, _, _, _)
CaaLoop(releases, ri, si, cache, st) ==
    IF ri > Len(releases) THEN st
    ELSE IF releases[ri].id = None THEN CaaLoop(releases, ri + 1, 1, cache, st)
    ELSE IF si > Len(CaaSuffixes) THEN CaaLoop(releases, ri + 1, 1, cache, st)
    ELSE LET r == releases[ri]
             url == <<Val(r.id), CaaSuffixes[si]>>
             b == CaaFetch(cache, url, r.net[si])
             st1 == [st EXCEPT !.tried = Append(@, <<ri, si, b>>)]
         IN IF Verified(b)
            THEN CaaLoop(releases, ri + 1, 1, CaaStore(cache, url, b),
                         [st1 EXCEPT !.out = Append(@, CaaCandidate(r, url)),
                                     !.src = Append(@, ri)])
            ELSE CaaLoop(releases, ri, si + 1, CaaStore(cache, url, b), st1)

CaaStart == [out |-> <<>>, src |-> <<>>, tried |-> <<>>]
EmptyCache == [u \in {} |-> Some(0)]

\* releases = data.get("releases", []) or []
provider_musicbrainz_caa(releases) == CaaLoop(releases, 1, 1, EmptyCache, CaaStart)

MaxReleases == 2
CaaAnswers == {Raise, Some(MIN_BYTES), Some(MIN_BYTES + 1)}
CaaNets == {<<a, b, c>> : a \in CaaAnswers, b \in CaaAnswers, c \in CaaAnswers}
CaaRelease(id, net) ==
    [id |-> id, title |-> Some(S_okcom), date |-> Some(<<"1", "9", "9", "1">>),
     net |-> net]
CaaReleases ==
    {CaaRelease(None, <<Raise, Raise, Raise>>)}
        \cup {CaaRelease(Some(id), net) : id \in {"m1", "m2"}, net \in CaaNets}
CaaInputs == SeqsUpTo(CaaReleases, MaxReleases)

----------------------------------------------------------------------------
(* Sandwicher.py, the composer: App._next_album_filename and               *)
(* App._save_image.  A path is a directory (the output root <<>> or a      *)
(* genre subfolder) and a file name; comp.fs is the set of existing files  *)
(* under the output root.                                                  *)

S_album == <<"a", "l", "b", "u", "m", "_">>
S_png == <<".", "p", "n", "g">>
S_Unknown == <<"U", "n", "k", "n", "o", "w", "n">>

\* str(n) for n >= 0
RECURSIVE IntToStr(_)
IntToStr(n) ==
    IF n < 10 THEN <<Digits[n + 1]>>
    ELSE IntToStr(n \div 10) \o <<Digits[(n % 10) + 1]>>

\* f"{n:0{digits}d}"
RECURSIVE ZeroPad(_, _)
ZeroPad(s, digits) == IF Len(s) >= digits THEN s ELSE ZeroPad(<<"0">> \o s, digits)

\* Line 471: f"album_{genre}_{n:0{digits}d}.png"
AlbumName(genre, n, digits) ==
    S_album \o genre \o <<"_">> \o ZeroPad(IntToStr(n), digits) \o S_png

\* Lines 455, 461: ^album_\(<genre>\)_(\d+)\.png$ with re.IGNORECASE; the
\* result is group 1 of the match, or None.
PatternMatch(name, genre) ==
    LET pre == S_album \o <<"(">> \o genre \o <<")", "_">>
        num == SubSeq(name, Len(pre) + 1, Len(name) - Len(S_png))
    IN IF /\ Len(name) > Len(pre) + Len(S_png)
          /\ Lower(SubSeq(name, 1, Len(pre))) = Lower(pre)
          /\ Lower(SubSeq(name, Len(name) - Len(S_png) + 1, Len(name))) = S_png
          /\ IsDigitStr(num)
       THEN Some(num)
       ELSE None

FilesIn(fs, dir) == {p.name : p \in {q \in fs : q.dir = dir}}

\* Lines 456-468: the largest number among the matching file names.
MaxMatched(names, genre) ==
    LET nums == {StrToInt(Val(PatternMatch(nm, genre))) :
                    nm \in {x \in names : PatternMatch(x, genre) # None}}
    IN IF nums = {} THEN 0 ELSE CHOOSE n \in nums : \A m \in nums : m <= n

\* Variant without the loop of lines 470-474.
next_album_filename_NoLoop(fs, out_dir, genre, digits) ==
    [dir |-> out_dir,
     name |-> AlbumName(genre, MaxMatched(FilesIn(fs, out_dir), genre) + 1, digits)]

\* Lines 453-474.
next_album_filename(fs, out_dir, genre, digits) ==
    LET names == FilesIn(fs, out_dir)
        n0 == MaxMatched(names, genre) + 1
        n == CHOOSE k \in n0..(n0 + Cardinality(names)) :
                /\ AlbumName(genre, k, digits) \notin names
                /\ \A m \in n0..(k - 1) : AlbumName(genre, m, digits) \in names
    IN [dir |-> out_dir, name |-> AlbumName(genre, n, digits)]

\* Lines 522-532: <stem><suffix>.png, or the first free <stem><suffix>_<i>.png.
FallbackName(names, stem, suffix) ==
    LET plain == stem \o suffix \o S_png
        Bumped(i) == stem \o suffix \o <<"_">> \o IntToStr(i) \o S_png
    IN IF plain \notin names THEN plain
       ELSE Bumped(CHOOSE i \in 1..(Cardinality(names) + 1) :
                      /\ Bumped(i) \notin names
                      /\ \A j \in 1..(i - 1) : Bumped(j) \in names)

\* Lines 512-532: the path _save_image writes to.
SavePath(fs, spine_choice, genre_subfolder, auto_name, num_digits, stem, suffix) ==
    LET genre == IF Strip(spine_choice) # <<>> THEN Strip(spine_choice) ELSE S_Unknown
        out_dir == IF genre_subfolder THEN genre ELSE <<>>
    IN IF auto_name
       THEN next_album_filename(fs, out_dir, genre,
                                IF num_digits < 1 THEN 1 ELSE num_digits)
       ELSE [dir |-> out_dir, name |-> FallbackName(FilesIn(fs, out_dir), stem, suffix)]

MaxExports == 3
MaxDeletes == 1

SpineChoices == {<<"R">>, <<" ">>}
NumDigits == {0, 2}
Stems == {<<"c">>}
Suffixes == {<<>>, <<"_", "1">>}

CompSeed ==
    {[dir |-> <<>>, name |-> AlbumName(<<"R">>, 2, 2)],
     [dir |-> <<>>, name |-> S_album \o <<"(", "r", ")", "_", "0", "3">> \o S_png],
     [dir |-> <<>>, name |-> <<"c">> \o S_png]}

\* The processing runs (worker threads of _process_paths) that can be alive
\* at the same time, and the covers of one run.
CompRuns == {1, 2}
MaxCovers == 1
RunIdle == [pc |-> "idle", left |-> 0, path |-> None]

\* th is the position of each run; saves lists the files written by the
\* runs, in order.
CompInit ==
    [fs |-> {}, last |-> None, n |-> 0, dels |-> 0,
     th |-> [t \in CompRuns |-> RunIdle], saves |-> <<>>,
     template_img |-> None, blue_rect |-> None, drag_start |-> None,
     manual |-> <<0, 0, 0, 0>>, session |-> None]

\* One cover is composed and saved (lines 508-534).
C_Export ==
    /\ comp.n < MaxExports
    /\ \E sc \in SpineChoices, sub \in BOOLEAN, auto \in BOOLEAN,
          nd \in NumDigits, stem \in Stems, suffix \in Suffixes :
          LET path == SavePath(comp.fs, sc, sub, auto, nd, stem, suffix)
          IN comp' = [comp EXCEPT !.fs = @ \cup {path},
                                  !.last = Some([path |-> path, auto |-> auto,
                                                 genre |-> IF Strip(sc) # <<>>
                                                           THEN Strip(sc) ELSE S_Unknown]),
                                  !.n = @ + 1]
    /\ UNCHANGED <<fn, http, wvars>>

\* The user deletes a file of the output folder between two exports.
C_Delete ==
    /\ comp.dels < MaxDeletes
    /\ \E p \in comp.fs :
          comp' = [comp EXCEPT !.fs = @ \ {p}, !.dels = @ + 1]
    /\ UNCHANGED <<fn, http, wvars>>

\* Lines 536-572: Process Selected / Process All starts a worker thread for
\* the chosen covers, whether or not an earlier one is still running.
P_Start(t) ==
    /\ comp.th[t].pc = "idle"
    /\ \E k \in 1..MaxCovers :
          comp' = [comp EXCEPT !.th[t] = [pc |-> "name", left |-> k, path |-> None]]
    /\ UNCHANGED <<fn, http, wvars>>

\* Lines 509-532: run t chooses the output path of its next cover from the
\* files that exist now.
P_Name(t) ==
    /\ comp.th[t].pc = "name"
    /\ \E sc \in SpineChoices, sub \in BOOLEAN, auto \in BOOLEAN,
          nd \in NumDigits, stem \in Stems, suffix \in Suffixes :
          comp' = [comp EXCEPT
                     !.th[t].pc = "save",
                     !.th[t].path = Some(SavePath(comp.fs, sc, sub, auto, nd, stem, suffix))]
    /\ UNCHANGED <<fn, http, wvars>>

\* Line 534: img.save(out_path, "PNG") creates or replaces the file.
P_Save(t) ==
    /\ comp.th[t].pc = "save"
    /\ LET path == Val(comp.th[t].path)
           left == comp.th[t].left - 1
       IN comp' = [comp EXCEPT
                     !.fs = @ \cup {path},
                     !.saves = Append(@, [run |-> t, path |-> path]),
                     !.th[t] = [pc |-> IF left > 0 THEN "name" ELSE "done",
                                left |-> left, path |-> None]]
    /\ UNCHANGED <<fn, http, wvars>>

----------------------------------------------------------------------------
(* Sandwicher.py, the cover target rectangle.  comp.template_img is None   *)
(* or Some(<<w, h>>), the size of the loaded template; comp.blue_rect is   *)
(* None or Some(<<x0, y0, x1, y1>>); comp.manual holds the four entry      *)
(* fields manual_x0, manual_y0, manual_x1, manual_y1; comp.session is None *)
(* while there is no session file and otherwise Some of the template and   *)
(* the rectangle written to it.                                            *)

Min2(a, b) == IF a < b THEN a ELSE b

\* The templates that can be chosen, by size.
TemplateSizes == {<<2, 2>>}

\* mask.getbbox(): None for an empty mask, else a box with x0 < x1 <= w
\* and y0 < y1 <= h.
BBoxes(size) ==
    LET Boxes == {d \in (0..size[1]) \X (0..size[2]) \X (0..size[1]) \X (0..size[2]) :
                    d[1] < d[3] /\ d[2] < d[4]}
    IN {None} \cup {Some(d) : d \in Boxes}

\* The values typed into the pad field and into the manual fields.
Pads == {-1, 0, 1}
ManualEntries == {<<0, 0, 2, 2>>, <<1, 0, 1, 2>>, <<0, 2, 1, 1>>}

\* Lines 119-125 of detect_largest_blue_rect, from the bounding box of the
\* mask.
detect_largest_blue_rect(size, bbox, pad) ==
    IF bbox = None THEN None
    ELSE LET b == Val(bbox)
         IN Some(<<Max2(0, b[1] - pad), Max2(0, b[2] - pad),
                   Min2(size[1], b[3] + pad), Min2(size[2], b[4] + pad)>>)

\* Lines 251-256.
B_ChooseTemplate ==
    /\ \E size \in TemplateSizes : comp' = [comp EXCEPT !.template_img = Some(size)]
    /\ UNCHANGED <<fn, http, wvars>>

\* Lines 317-329.
B_Detect ==
    /\ comp.template_img # None
    /\ \E bbox \in BBoxes(Val(comp.template_img)), pad \in Pads :
          LET rect == detect_largest_blue_rect(Val(comp.template_img), bbox, pad)
          IN IF rect = None
             THEN UNCHANGED comp
             ELSE comp' = [comp EXCEPT !.blue_rect = rect, !.manual = Val(rect)]
    /\ UNCHANGED <<fn, http, wvars>>

\* The user types into the four manual fields.
B_EditManual ==
    /\ \E m \in ManualEntries : comp' = [comp EXCEPT !.manual = m]
    /\ UNCHANGED <<fn, http, wvars>>

\* Lines 331-338.
B_UseManual ==
    /\ LET m == comp.manual
       IN IF m[3] <= m[1] \/ m[4] <= m[2]
          THEN UNCHANGED comp
          ELSE comp' = [comp EXCEPT !.blue_rect = Some(m)]
    /\ UNCHANGED <<fn, http, wvars>>

\* _canvas_to_image_xy: a canvas position becomes a pixel of the template.
ImagePoints(size) == (0..(size[1] - 1)) \X (0..(size[2] - 1))

\* Lines 433-436.
B_CanvasDown ==
    /\ comp.template_img # None
    /\ \E pt \in ImagePoints(Val(comp.template_img)) :
          comp' = [comp EXCEPT !.drag_start = Some(pt)]
    /\ UNCHANGED <<fn, http, wvars>>

\* Lines 438-447.
B_CanvasDrag ==
    /\ comp.template_img # None
    /\ comp.drag_start # None
    /\ \E pt \in ImagePoints(Val(comp.template_img)) :
          LET s == Val(comp.drag_start)
              rect == <<Min2(s[1], pt[1]), Min2(s[2], pt[2]),
                        Max2(s[1], pt[1]), Max2(s[2], pt[2])>>
          IN comp' = [comp EXCEPT !.blue_rect = Some(rect), !.manual = rect]
    /\ UNCHANGED <<fn, http, wvars>>

\* Lines 449-450.
B_CanvasUp ==
    /\ comp' = [comp EXCEPT !.drag_start = None]
    /\ UNCHANGED <<fn, http, wvars>>

\* Lines 591-615: the session file records the template and the rectangle.
B_SaveSession ==
    /\ comp' = [comp EXCEPT !.session = Some([template_img |-> comp.template_img,
                                               blue_rect |-> comp.blue_rect])]
    /\ UNCHANGED <<fn, http, wvars>>

\* Lines 617-652: without a file nothing changes; else the template and
\* the rectangle are taken from the file, and the manual fields follow a
\* rectangle that is set.
B_LoadSession ==
    /\ IF comp.session = None
       THEN UNCHANGED comp
       ELSE LET s == Val(comp.session)
            IN comp' = [comp EXCEPT
                          !.template_img = s.template_img,
                          !.blue_rect = s.blue_rect,
                          !.manual = IF s.blue_rect # None THEN Val(s.blue_rect) ELSE @]
    /\ UNCHANGED <<fn, http, wvars>>

----------------------------------------------------------------------------
(* http_get_json and http_get_bytes on the process-wide dicts _json_cache  *)
(* and _bytes_cache.  They are called from the provider pool threads, the  *)
(* worker thread and the thumbnail threads; one dict operation (in, [],    *)
(* []=) is one atomic step.  A dict of parameters is a function from its   *)
(* names to their values; a fetched value is tagged with the request it    *)
(* was fetched for and with the number of the fetch.                       *)

HttpThreads == {1, 2}
MaxCalls == 1

ParamNames == <<"a", "b">>
EmptyDict == [k \in {} |-> ""]

\* params or {}
ParamsOrEmpty(params) == IF params = None THEN EmptyDict ELSE Val(params)

\* sorted(d)
SortedNames(d) == SelectSeq(ParamNames, LAMBDA k : k \in DOMAIN d)

\* "&".join(f"{k}={d[k]}" for k in ks)
RECURSIVE JoinParams(_, _)
JoinParams(ks, d) ==
    IF ks = <<>> THEN <<>>
    ELSE <<Head(ks), "=", d[Head(ks)]>>
         \o (IF Len(ks) > 1 THEN <<"&">> \o JoinParams(Tail(ks), d) ELSE <<>>)

\* Variant of the key that leaves the parameters out.
JsonKey_UrlOnly(url, params) == url \o <<"?">>

\* Line 71: key = url + "?" + "&".join(...)
JsonKey(url, params) ==
    LET d == ParamsOrEmpty(params)
    IN url \o <<"?">> \o JoinParams(SortedNames(d), d)

JsonRequests ==
    {[kind |-> "json", url |-> u, params |-> q] :
        u \in {<<"u">>},
        q \in {None, Some(EmptyDict), Some([a |-> "1"]), Some([a |-> "1", b |-> "2"])}}
    \cup {[kind |-> "json", url |-> <<"v">>, params |-> Some([a |-> "1"])]}

BytesRequests ==
    {[kind |-> "bytes", url |-> u, params |-> None] : u \in {<<"u">>, <<"u", "?">>}}

HttpRequests == JsonRequests \cup BytesRequests

\* Lines 71 and 96: the key a call works with.
HttpKey(r) == IF r.kind = "json" THEN JsonKey(r.url, r.params) ELSE r.url

HttpIdle ==
    [pc |-> "idle", req |-> None, key |-> <<>>, data |-> None, ret |-> None,
     calls |-> 0]

HttpInit ==
    [json |-> EmptyDict, bytes |-> EmptyDict, n |-> 0,
     th |-> [t \in HttpThreads |-> HttpIdle]]

CacheOf(kind) == IF kind = "json" THEN http.json ELSE http.bytes

\* A thread calls http_get_json or http_get_bytes: lines 70-71, 95.
H_Call ==
    \E t \in HttpThreads : \E r \in HttpRequests :
        /\ http.th[t].pc \in {"idle", "done", "raised"}
        /\ http.th[t].calls < MaxCalls
        /\ http' = [http EXCEPT !.th[t] =
                      [pc |-> "test", req |-> Some(r), key |-> HttpKey(r),
                       data |-> None, ret |-> None, calls |-> @.calls + 1]]
        /\ UNCHANGED <<fn, comp, wvars>>

\* Lines 72 and 96: key in cache.
H_Test ==
    \E t \in HttpThreads :
        /\ http.th[t].pc = "test"
        /\ http' = [http EXCEPT !.th[t].pc =
                      IF http.th[t].key \in DOMAIN CacheOf(Val(http.th[t].req).kind)
                      THEN "hit" ELSE "fetch"]
        /\ UNCHANGED <<fn, comp, wvars>>

\* Lines 73 and 97: return cache[key].
H_Hit ==
    \E t \in HttpThreads :
        /\ http.th[t].pc = "hit"
        /\ http' = [http EXCEPT !.th[t].pc = "done",
                                !.th[t].ret =
                                   Some(CacheOf(Val(http.th[t].req).kind)[http.th[t].key])]
        /\ UNCHANGED <<fn, comp, wvars>>

\* Lines 75-88 and 99-110: the request is answered.
H_Fetch ==
    \E t \in HttpThreads :
        /\ http.th[t].pc = "fetch"
        /\ http' = [http EXCEPT !.n = @ + 1,
                                !.th[t].pc = "store",
                                !.th[t].data =
                                   Some([for |-> Val(http.th[t].req), ver |-> http.n + 1])]
        /\ UNCHANGED <<fn, comp, wvars>>

\* Lines 91-93 and 113-115: the request fails; the exception is passed on.
H_FetchFail ==
    \E t \in HttpThreads :
        /\ http.th[t].pc = "fetch"
        /\ http' = [http EXCEPT !.th[t].pc = "raised"]
        /\ UNCHANGED <<fn, comp, wvars>>

StoreIn(cache, key, data) ==
    [k \in DOMAIN cache \cup {key} |-> IF k = key THEN data ELSE cache[k]]

\* Lines 89-90 and 111-112: cache[key] = data; return data.
H_Store ==
    \E t \in HttpThreads :
        /\ http.th[t].pc = "store"
        /\ LET th == http.th[t]
               kind == Val(th.req).kind
           IN http' = [http EXCEPT
                         !.json = IF kind = "json" THEN StoreIn(@, th.key, Val(th.data)) ELSE @,
                         !.bytes = IF kind = "bytes" THEN StoreIn(@, th.key, Val(th.data)) ELSE @,
                         !.th[t].pc = "done",
                         !.th[t].ret = th.data]
        /\ UNCHANGED <<fn, comp, wvars>>

----------------------------------------------------------------------------
(* The loaded CSV rows, the providers' possible answers, the option        *)
(* settings and the output folder the runs start from.                     *)

S_Rock == <<"R","o","c","k">>
S_Artist == <<"R","H">>

Rows == << [Genre |-> S_Rock, Artist |-> S_Artist, Album |-> S_OK_Comp, Year |-> <<"2">>],
           [Genre |-> S_Rock, Artist |-> S_Artist, Album |-> S_okcom, Year |-> <<>>] >>
NRows == Len(Rows)

PCand(p, u, t, y) == [provider |-> p, image |-> u, title |-> t, year |-> y]

iA == PCand("iTunes", "A", Some(S_OK_Comp), Some(2))
iB == PCand("iTunes", "B", Some(S_okcomps), Some(4))
dC == PCand("Deezer", "C", Some(S_okcom), None)
dN == PCand("Deezer", NoneUrl, Some(S_okcom), None)
mD == PCand("CoverArtArchive", "D", Some(S_okcom), Some(2))

Providers == {"iTunes", "Deezer", "CoverArtArchive"}

\* What a provider call can return; every call can also raise.
Replies(p) ==
    CASE p = "iTunes" -> {<<>>, <<iA>>, <<iA, iB>>}
      [] p = "Deezer" -> {<<dC>>, <<dN>>}
      [] p = "CoverArtArchive" -> {<<mD>>}

\* ext of the saved file: the extension found in the URL, ".jpg" otherwise.
ExtOf(url) == IF url = "B" THEN ".png" ELSE ".jpg"

ProviderSets == {{}, {"iTunes", "Deezer"}, {"CoverArtArchive"}}
WorkerTols == {-1, 1}

\* The option variables.  "Auto-pick when confident" (auto_pick, line 357)
\* is on by default; it is switched off in configurations that otherwise
\* keep the defaults.
Configs ==
    [ask_always : BOOLEAN, year_tolerance : WorkerTols,
     overwrite_existing : BOOLEAN, providers : ProviderSets, auto_pick : {TRUE}]
    \cup [ask_always : {FALSE}, year_tolerance : {1},
          overwrite_existing : {FALSE}, providers : ProviderSets \ {{}},
          auto_pick : {FALSE}]

\* What the user can type into the dialog before "Retry with changes".
RetryEdits == { <<S_Artist, S_okcom, <<>> >>, <<S_Artist, S_okcom, <<"0">> >>,
                <<S_Artist, S_OK_Comp, <<" ", "2">> >> }

MaxRetries == 1

\* fpath = out_dir/slug(genre)/slug(artist)__slug(album)__<year or NA><ext>
Path(genre, artist, album, yr_int, ext) ==
    [dir |-> slug(Some(genre)), artist |-> slug(Some(artist)),
     album |-> slug(Some(album)),
     year |-> IF IntTruthy(yr_int) THEN yr_int ELSE None, ext |-> ext]

\* The output folder already holds a cover for the second row.
InitFiles == [p \in {Path(S_Rock, S_Artist, S_okcom, None, ".jpg")} |-> "old"]

FnIdle == [op |-> "idle"]

NoWorker ==
    [pc |-> "none", run |-> 0, indices |-> <<>>, pos |-> 1, done |-> 0,
     idx |-> 0, artist |-> <<>>, album |-> <<>>, year |-> YearNone, genre |-> <<>>,
     yr_int |-> None, jobs |-> {}, candidates |-> <<>>, url |-> NoneUrl,
     retries |-> 0]

WorkerAlive == w.pc \notin {"none", "dead"}

InitApp ==
    /\ cfg \in Configs
    /\ files = InitFiles
    /\ tree = [i \in 1..NRows |-> ""]
    /\ queue = <<>>
    /\ gui = [pc |-> "idle", dlg |-> None]
    /\ stop_flag = FALSE
    /\ status_var = "Idle"
    /\ w = NoWorker
    /\ reply = None
    /\ hist = [i \in 1..NRows |-> <<>>]
    /\ parts = <<>>

Init == fn = FnIdle /\ InitApp /\ http = HttpInit /\ comp = CompInit

----------------------------------------------------------------------------
(* Callbacks the worker puts on App.queue. *)

CbStatus(idx, text) == [k |-> "status", idx |-> idx, text |-> text]
CbLog(msg) == [k |-> "log", msg |-> msg]
CbAsk(artist, album, yr_int, candidates) ==
    [k |-> "ask", artist |-> artist, album |-> album, yr_int |-> yr_int,
     candidates |-> candidates]
CbProgress(done, total) == [k |-> "progress", done |-> done, total |-> total]
CbStatusVar(text) == [k |-> "statusvar", text |-> text]

TerminalStatuses == {"Not found", "Skipped", "Exists - skipped", "OK", "Error"}

RunLists == {<<1, 2>>}

----------------------------------------------------------------------------
(* App._start (Start All / Redo ...) and App.stop. *)

\* Variant without the test of line 520: a thread is started in any case.
StartRun_NoAliveCheck(indices) ==
    /\ gui.pc \in {"idle", "scheduled"}
    /\ w.pc # "dead"
    /\ stop_flag' = FALSE
    /\ status_var' = "Running"
    /\ w' = [NoWorker EXCEPT !.pc = "for", !.run = w.run + 1, !.indices = indices]
    /\ gui' = [gui EXCEPT !.pc = "scheduled"]
    /\ hist' = [i \in 1..NRows |-> <<>>]
    /\ UNCHANGED <<fn, http, comp, cfg, files, tree, queue, reply, parts>>

\* Lines 513-526, called from a button when the GUI thread is in its event
\* loop.  While the worker is alive the request only shows a message (lines
\* 520-521); otherwise a worker thread is started.  The first run of the
\* application is followed.
StartRun(indices) ==
    /\ gui.pc \in {"idle", "scheduled"}
    /\ IF WorkerAlive
       THEN UNCHANGED vars
       ELSE /\ w.pc = "none"
            /\ stop_flag' = FALSE
            /\ status_var' = "Running"
            /\ w' = [NoWorker EXCEPT !.pc = "for", !.run = w.run + 1,
                                     !.indices = indices]
            /\ gui' = [gui EXCEPT !.pc = "scheduled"]
            /\ hist' = [i \in 1..NRows |-> <<>>]
            /\ UNCHANGED <<fn, http, comp, cfg, files, tree, queue, reply, parts>>

Start == \E indices \in RunLists : StartRun(indices)

Stop ==
    /\ WorkerAlive
    /\ ~stop_flag
    /\ stop_flag' = TRUE
    /\ status_var' = "Stopping..."
    /\ UNCHANGED <<fn, http, comp, cfg, files, tree, queue, gui, w, reply, hist, parts>>

----------------------------------------------------------------------------
(* App._worker_thread, one action per step between two interactions with   *)
(* the other threads (queue, result_q, stop flag, providers, file system).  *)

\* Lines 584-593: the jobs of a round, one per enabled provider, each with
\* the query it is submitted with.
SubmitJobs(artist, album, yr) ==
    {[p |-> p, artist |-> artist, album |-> album,
      year |-> IF p = "CoverArtArchive" THEN yr ELSE None] : p \in cfg.providers}

\* Variant of the loop entry without the test of the stop flag.
W_TakeItem_NoStopCheck ==
    /\ w.pc = "for"
    /\ w.pos <= Len(w.indices)
    /\ LET idx == w.indices[w.pos]
           r == Rows[idx]
           yr == YrInt(RowYear(r.Year))
       IN /\ w' = [w EXCEPT !.pc = "collect", !.idx = idx,
                            !.artist = r.Artist, !.album = r.Album,
                            !.year = RowYear(r.Year), !.genre = r.Genre,
                            !.yr_int = yr, !.candidates = <<>>,
                            !.jobs = SubmitJobs(r.Artist, r.Album, yr),
                            !.retries = 0, !.url = NoneUrl]
          /\ queue' = Append(queue, CbStatus(idx, "Searching..."))
          /\ hist' = [hist EXCEPT ![idx] = Append(@, "Searching...")]
    /\ parts' = <<>>
    /\ UNCHANGED <<fn, http, comp, cfg, files, tree, gui, stop_flag, status_var, reply>>

\* Lines 571-593: the next index is taken up and its first round starts.
W_TakeItem ==
    /\ w.pc = "for"
    /\ w.pos <= Len(w.indices)
    /\ ~stop_flag
    /\ LET idx == w.indices[w.pos]
           r == Rows[idx]
           yr == YrInt(RowYear(r.Year))
       IN /\ w' = [w EXCEPT !.pc = "collect", !.idx = idx,
                            !.artist = r.Artist, !.album = r.Album,
                            !.year = RowYear(r.Year), !.genre = r.Genre,
                            !.yr_int = yr, !.candidates = <<>>,
                            !.jobs = SubmitJobs(r.Artist, r.Album, yr),
                            !.retries = 0, !.url = NoneUrl]
          /\ queue' = Append(queue, CbStatus(idx, "Searching..."))
          /\ hist' = [hist EXCEPT ![idx] = Append(@, "Searching...")]
    /\ parts' = <<>>
    /\ UNCHANGED <<fn, http, comp, cfg, files, tree, gui, stop_flag, status_var, reply>>

\* Lines 572-573 and 660: the stop flag is seen at loop entry.
W_Stopped ==
    /\ w.pc = "for"
    /\ w.pos <= Len(w.indices)
    /\ stop_flag
    /\ w' = [w EXCEPT !.pc = "exit"]
    /\ queue' = queue \o <<CbLog("Stopped by user"), CbStatusVar("Done"), CbLog("Finished.")>>
    /\ parts' = <<>>
    /\ UNCHANGED <<fn, http, comp, cfg, files, tree, gui, stop_flag, status_var, reply, hist>>

\* Line 660: the index list is exhausted.
W_Finish ==
    /\ w.pc = "for"
    /\ w.pos > Len(w.indices)
    /\ w' = [w EXCEPT !.pc = "exit"]
    /\ queue' = queue \o <<CbStatusVar("Done"), CbLog("Finished.")>>
    /\ parts' = <<>>
    /\ UNCHANGED <<fn, http, comp, cfg, files, tree, gui, stop_flag, status_var, reply, hist>>

\* The thread function returns.
W_Exit ==
    /\ w.pc = "exit"
    /\ w' = [w EXCEPT !.pc = "dead"]
    /\ UNCHANGED <<fn, http, comp, cfg, files, tree, queue, gui, stop_flag, status_var, reply, hist, parts>>

\* Lines 594-597: a provider call completes with a result.
W_CollectResult ==
    /\ w.pc = "collect"
    /\ \E j \in w.jobs : \E part \in Replies(j.p) :
          /\ w' = [w EXCEPT !.jobs = @ \ {j}, !.candidates = @ \o part]
          /\ parts' = Append(parts, [p |-> j.p, ok |-> TRUE, part |-> part])
    /\ UNCHANGED <<fn, http, comp, cfg, files, tree, queue, gui, stop_flag, status_var, reply, hist>>

\* Variant in which an exception discards what was collected so far.
W_CollectError_Discard ==
    /\ w.pc = "collect"
    /\ \E j \in w.jobs :
          /\ w' = [w EXCEPT !.jobs = @ \ {j}, !.candidates = <<>>]
          /\ parts' = Append(parts, [p |-> j.p, ok |-> FALSE, part |-> <<>>])
    /\ queue' = Append(queue, CbLog("provider error"))
    /\ UNCHANGED <<fn, http, comp, cfg, files, tree, gui, stop_flag, status_var, reply, hist>>

\* Lines 598-599: a provider call completes with an exception.
W_CollectError ==
    /\ w.pc = "collect"
    /\ \E j \in w.jobs :
          /\ w' = [w EXCEPT !.jobs = @ \ {j}]
          /\ parts' = Append(parts, [p |-> j.p, ok |-> FALSE, part |-> <<>>])
    /\ queue' = Append(queue, CbLog("provider error"))
    /\ UNCHANGED <<fn, http, comp, cfg, files, tree, gui, stop_flag, status_var, reply, hist>>

\* Variant that leaves the item without recording its status.
EndItem_NoStatus(status, logmsg) ==
    /\ w' = [w EXCEPT !.pc = "for", !.pos = @ + 1, !.done = @ + 1,
                      !.candidates = <<>>, !.jobs = {}, !.url = NoneUrl,
                      !.artist = <<>>, !.album = <<>>, !.year = YearNone,
                      !.genre = <<>>, !.yr_int = None, !.retries = 0]
    /\ queue' = queue \o <<CbLog(logmsg), CbProgress(w.done + 1, Len(w.indices))>>
    /\ UNCHANGED hist

\* Lines 605, 631, 646-647, 652-653, 656, 658-659: the item gets its status,
\* the try block is left, the item is counted and the for loop goes on.
\* The locals of the item are dead from here on.
EndItem(status, logmsg) ==
    /\ w' = [w EXCEPT !.pc = "for", !.pos = @ + 1, !.done = @ + 1,
                      !.candidates = <<>>, !.jobs = {}, !.url = NoneUrl,
                      !.artist = <<>>, !.album = <<>>, !.year = YearNone,
                      !.genre = <<>>, !.yr_int = None, !.retries = 0]
    /\ queue' = queue \o <<CbStatus(w.idx, status), CbLog(logmsg),
                           CbProgress(w.done + 1, Len(w.indices))>>
    /\ hist' = [hist EXCEPT ![w.idx] = Append(@, status)]

\* Lines 607-609: auto-pick is attempted unless "Always ask" is set.
AutoUrl(album, yr_int, cands) ==
    IF ~cfg.ask_always
    THEN maybe_autopick(Some(album), yr_int, cands, cfg.year_tolerance)
    ELSE NoneUrl

\* Variant of the escalation test that ignores "Always ask".
NeedsSelection_CountOnly(cands) == Len(cands) > 1

\* Line 612: without a URL, the selector is asked when there is more than
\* one candidate or "Always ask" is set.
NeedsSelection(cands) == Len(cands) > 1 \/ cfg.ask_always

\* Lines 594, 601-633: all jobs are joined; filter, deduplicate, then Not
\* found, auto-pick, escalation or the single candidate.
W_Decide ==
    /\ w.pc = "collect"
    /\ w.jobs = {}
    /\ LET cands == dedup_by_image(
                      soft_year_filter(w.candidates, w.yr_int, cfg.year_tolerance))
           url == AutoUrl(w.album, w.yr_int, cands)
       IN IF cands = <<>>
          THEN /\ EndItem("Not found", "No image candidates found.")
               /\ UNCHANGED reply
          ELSE IF UrlTruthy(url)
          THEN /\ w' = [w EXCEPT !.pc = "save", !.candidates = cands, !.url = url]
               /\ UNCHANGED <<queue, reply, hist>>
          ELSE IF NeedsSelection(cands)
          THEN /\ w' = [w EXCEPT !.pc = "wait", !.candidates = cands, !.url = url]
               /\ queue' = queue \o <<CbLog("awaiting selection"),
                                      CbAsk(w.artist, w.album, w.yr_int, cands)>>
               /\ reply' = None
               /\ UNCHANGED hist
          ELSE /\ w' = [w EXCEPT !.pc = "save", !.candidates = cands,
                                 !.url = cands[1].image]
               /\ UNCHANGED <<queue, reply, hist>>
    /\ UNCHANGED <<fn, http, comp, cfg, files, tree, gui, stop_flag, status_var, parts>>

NoChoice == [k |-> "none"]
UrlChoice(u) == [k |-> "url", url |-> u]
RetryChoice(a, b, y) == [k |-> "retry", artist |-> a, album |-> b, year |-> y]

\* Variant in which a URL answer is replaced by the first candidate.
HandleChoice_FirstCandidate(choice) ==
    IF choice.k = "retry"
    THEN LET year == IF choice.year = None THEN YearNone ELSE YearInt(Val(choice.year))
             yr == YrInt(year)
         IN /\ w' = [w EXCEPT !.pc = "collect", !.artist = choice.artist,
                              !.album = choice.album, !.year = year,
                              !.yr_int = yr, !.candidates = <<>>,
                              !.jobs = SubmitJobs(choice.artist, choice.album, yr),
                              !.retries = @ + 1]
            /\ queue' = Append(queue, CbLog("Retry"))
            /\ parts' = <<>>
            /\ UNCHANGED hist
    ELSE IF choice.k = "url" /\ UrlTruthy(choice.url)
    THEN /\ w' = [w EXCEPT !.pc = "save", !.url = w.candidates[1].image]
         /\ UNCHANGED <<queue, hist, parts>>
    ELSE EndItem("Skipped", "User skipped.") /\ UNCHANGED parts

\* Variant in which a retry keeps the candidates of the previous round.
HandleChoice_KeepCandidates(choice) ==
    IF choice.k = "retry"
    THEN LET year == IF choice.year = None THEN YearNone ELSE YearInt(Val(choice.year))
             yr == YrInt(year)
         IN /\ w' = [w EXCEPT !.pc = "collect", !.artist = choice.artist,
                              !.album = choice.album, !.year = year,
                              !.yr_int = yr,
                              !.jobs = SubmitJobs(choice.artist, choice.album, yr),
                              !.retries = @ + 1]
            /\ queue' = Append(queue, CbLog("Retry"))
            /\ parts' = <<>>
            /\ UNCHANGED hist
    ELSE IF choice.k = "url" /\ UrlTruthy(choice.url)
    THEN /\ w' = [w EXCEPT !.pc = "save", !.url = choice.url]
         /\ UNCHANGED <<queue, hist, parts>>
    ELSE EndItem("Skipped", "User skipped.") /\ UNCHANGED parts

\* Lines 624-631: the worker acts on the choice it took from result_q; a
\* retry replaces the query and starts the next round (lines 584-593).
HandleChoice(choice) ==
    IF choice.k = "retry"
    THEN LET year == IF choice.year = None THEN YearNone ELSE YearInt(Val(choice.year))
             yr == YrInt(year)
         IN /\ w' = [w EXCEPT !.pc = "collect", !.artist = choice.artist,
                              !.album = choice.album, !.year = year,
                              !.yr_int = yr, !.candidates = <<>>,
                              !.jobs = SubmitJobs(choice.artist, choice.album, yr),
                              !.retries = @ + 1]
            /\ queue' = Append(queue, CbLog("Retry"))
            /\ parts' = <<>>
            /\ UNCHANGED hist
    ELSE IF choice.k = "url" /\ UrlTruthy(choice.url)
    THEN /\ w' = [w EXCEPT !.pc = "save", !.url = choice.url]
         /\ UNCHANGED <<queue, hist, parts>>
    ELSE EndItem("Skipped", "User skipped.") /\ UNCHANGED parts

\* Lines 619-622: the reply is there when the loop tests result_q.empty().
W_GotReply ==
    /\ w.pc = "wait"
    /\ reply # None
    /\ HandleChoice(Val(reply))
    /\ reply' = None
    /\ UNCHANGED <<fn, http, comp, cfg, files, tree, gui, stop_flag, status_var>>

\* Variant of the wait loop without the test of the stop flag: the worker
\* sleeps on.
W_WaitStopped_KeepWaiting ==
    /\ w.pc = "wait"
    /\ reply = None
    /\ stop_flag
    /\ UNCHANGED vars

\* Line 620: result_q is empty and the stop flag is set: break.
W_WaitStopped ==
    /\ w.pc = "wait"
    /\ reply = None
    /\ stop_flag
    /\ w' = [w EXCEPT !.pc = "wait_get"]
    /\ UNCHANGED <<fn, http, comp, cfg, files, tree, queue, gui, stop_flag, status_var, reply, hist, parts>>

\* Variant in which a wait left without reply falls back to the first
\* candidate.
W_GetAfterStop_UseFirst ==
    /\ w.pc = "wait_get"
    /\ HandleChoice(IF reply # None THEN Val(reply)
                    ELSE UrlChoice(w.candidates[1].image))
    /\ reply' = None
    /\ UNCHANGED <<fn, http, comp, cfg, files, tree, gui, stop_flag, status_var>>

\* Line 622 after the break: result_q is tested once more.
W_GetAfterStop ==
    /\ w.pc = "wait_get"
    /\ HandleChoice(IF reply # None THEN Val(reply) ELSE NoChoice)
    /\ reply' = None
    /\ UNCHANGED <<fn, http, comp, cfg, files, tree, gui, stop_flag, status_var>>

CurrentPath == Path(w.genre, w.artist, w.album, w.yr_int, ExtOf(w.url))

\* Variant without the existing-file test.
W_CheckExisting_Always ==
    /\ w.pc = "save"
    /\ w' = [w EXCEPT !.pc = "download"]
    /\ queue' = Append(queue, CbLog("Downloading"))
    /\ UNCHANGED <<fn, http, comp, cfg, files, tree, gui, stop_flag, status_var, reply, hist, parts>>

\* Lines 636-649: target path and the existing-file check.
W_CheckExisting ==
    /\ w.pc = "save"
    /\ IF CurrentPath \in DOMAIN files /\ ~cfg.overwrite_existing
       THEN EndItem("Exists - skipped", "Exists, skipped")
       ELSE /\ w' = [w EXCEPT !.pc = "download"]
            /\ queue' = Append(queue, CbLog("Downloading"))
            /\ UNCHANGED hist
    /\ UNCHANGED <<fn, http, comp, cfg, files, tree, gui, stop_flag, status_var, reply, parts>>

\* Lines 650-653: the image is fetched and written.
W_Saved ==
    /\ w.pc = "download"
    /\ files' = [p \in DOMAIN files \cup {CurrentPath} |->
                    IF p = CurrentPath THEN w.url ELSE files[p]]
    /\ EndItem("OK", "Saved")
    /\ UNCHANGED <<fn, http, comp, cfg, tree, gui, stop_flag, status_var, reply, parts>>

\* Variant in which the exception ends the thread function.
W_DownloadError_Abort ==
    /\ w.pc = "download"
    /\ w' = [w EXCEPT !.pc = "exit"]
    /\ UNCHANGED <<fn, http, comp, cfg, files, tree, queue, gui, stop_flag, status_var, reply, hist, parts>>

\* Lines 650-651, 655-656: http_get_bytes or the file write raises; the
\* exception is caught at line 655 and nothing is written.
W_DownloadError ==
    /\ w.pc = "download"
    /\ EndItem("Error", "Error")
    /\ UNCHANGED <<fn, http, comp, cfg, files, tree, gui, stop_flag, status_var, reply, parts>>

----------------------------------------------------------------------------
(* The GUI thread: App._poll_queue and the choice dialog. *)

\* The callbacks one pass of the get_nowait loop runs before it blocks in a
\* dialog or finds the queue empty.
RunLen(q) ==
    IF \E i \in 1..Len(q) : q[i].k = "ask"
    THEN CHOOSE i \in 1..Len(q) : q[i].k = "ask" /\ \A j \in 1..(i - 1) : q[j].k # "ask"
    ELSE Len(q)

\* _set_row_status applied for the status callbacks of cbs, in order.
RECURSIVE TreeAfter(_, _)
TreeAfter(t, cbs) ==
    IF cbs = <<>> THEN t
    ELSE TreeAfter(IF Head(cbs).k = "status"
                   THEN [t EXCEPT ![Head(cbs).idx] = Head(cbs).text]
                   ELSE t, Tail(cbs))

RECURSIVE StatusVarAfter(_, _)
StatusVarAfter(v, cbs) ==
    IF cbs = <<>> THEN v
    ELSE StatusVarAfter(IF Head(cbs).k = "statusvar" THEN Head(cbs).text ELSE v,
                        Tail(cbs))

\* Lines 532-536: the timer fires (or the dialog has returned) and the
\* queued callbacks are run until an ask() blocks or the queue is empty.
G_Poll ==
    /\ gui.pc \in {"scheduled", "drain"}
    /\ LET n == RunLen(queue)
           cbs == SubSeq(queue, 1, n)
       IN /\ queue' = SubSeq(queue, n + 1, Len(queue))
          /\ tree' = TreeAfter(tree, cbs)
          /\ status_var' = StatusVarAfter(status_var, cbs)
          /\ gui' = IF n > 0 /\ queue[n].k = "ask"
                    THEN [pc |-> "dialog", dlg |-> Some(queue[n])]
                    ELSE [pc |-> "check", dlg |-> None]
    /\ UNCHANGED <<fn, http, comp, cfg, files, stop_flag, w, reply, hist, parts>>

\* Lines 537-540: poll again while the worker is alive.
G_Reschedule ==
    /\ gui.pc = "check"
    /\ IF WorkerAlive
       THEN gui' = [gui EXCEPT !.pc = "scheduled"] /\ UNCHANGED status_var
       ELSE gui' = [gui EXCEPT !.pc = "idle"] /\ status_var' = "Idle"
    /\ UNCHANGED <<fn, http, comp, cfg, files, tree, queue, stop_flag, w, reply, hist, parts>>

\* choose_url_ui returns what the dialog was closed with; ask() puts it on
\* result_q and _poll_queue goes on with the next callback.
DialogReturns(choice) ==
    /\ gui.pc = "dialog"
    /\ reply' = Some(choice)
    /\ gui' = [pc |-> "drain", dlg |-> None]
    /\ UNCHANGED <<fn, http, comp, cfg, files, tree, queue, stop_flag, status_var, w, hist, parts>>

\* "Use this" / "Use selected" on one of the offered candidates.
G_DialogUse ==
    /\ gui.pc = "dialog"
    /\ \E i \in 1..Len(Val(gui.dlg).candidates) :
          DialogReturns(UrlChoice(Val(gui.dlg).candidates[i].image))

\* "Skip this album", "Cancel", Escape.
G_DialogSkip == DialogReturns(NoChoice)

\* "Retry with changes" with edited fields.
G_DialogRetry ==
    /\ w.retries < MaxRetries
    /\ \E e \in RetryEdits :
          DialogReturns(RetryChoice(Strip(e[1]), Strip(e[2]), RetryYear(e[3])))

----------------------------------------------------------------------------

Next ==
    \/ Start
    \/ Stop
    \/ W_TakeItem
    \/ W_Stopped
    \/ W_Finish
    \/ W_Exit
    \/ W_CollectResult
    \/ W_CollectError
    \/ W_Decide
    \/ W_GotReply
    \/ W_WaitStopped
    \/ W_GetAfterStop
    \/ W_CheckExisting
    \/ W_Saved
    \/ W_DownloadError
    \/ G_Poll
    \/ G_Reschedule
    \/ G_DialogUse
    \/ G_DialogSkip
    \/ G_DialogRetry

Spec == Init /\ [][Next]_vars

----------------------------------------------------------------------------
(* Applications of the pure functions to drawn inputs. *)

ApplyDedup ==
    /\ fn = FnIdle
    /\ \E cs \in DedupInputs :
           fn' = [op |-> "dedup", cands |-> cs, out |-> dedup_by_image(cs)]
    /\ UNCHANGED <<http, comp, wvars>>

ApplyFilter ==
    /\ fn = FnIdle
    /\ \E cs \in FilterInputs, ty \in FilterTargets, tol \in FilterTols :
           fn' = [op |-> "filter", cands |-> cs, target |-> ty, tol |-> tol,
                  out |-> soft_year_filter(cs, ty, tol)]
    /\ UNCHANGED <<http, comp, wvars>>

ApplyAutopick ==
    /\ fn = FnIdle
    /\ \E cs \in PickInputs, al \in Albums, y \in QueryYears, tol \in Tolerances :
           fn' = [op |-> "autopick", cands |-> cs, album |-> al, year |-> y,
                  tol |-> tol, out |-> maybe_autopick(al, y, cs, tol)]
    /\ UNCHANGED <<http, comp, wvars>>

ApplySimilarity ==
    /\ fn = FnIdle
    /\ \E a \in SimTitles, b \in SimTitles :
           fn' = [op |-> "similarity", a |-> a, b |-> b,
                  ab |-> title_similarity(a, b), ba |-> title_similarity(b, a)]
    /\ UNCHANGED <<http, comp, wvars>>

ApplySlug ==
    /\ fn = FnIdle
    /\ \E s \in SlugInputs : fn' = [op |-> "slug", s |-> s, out |-> slug(s)]
    /\ UNCHANGED <<http, comp, wvars>>

ApplyParseYear ==
    /\ fn = FnIdle
    /\ \E dt \in DateInputs :
           fn' = [op |-> "parse_year", d |-> dt, out |-> parse_year_from_date(dt)]
    /\ UNCHANGED <<http, comp, wvars>>

ApplyCaa ==
    /\ fn = FnIdle
    /\ \E rs \in CaaInputs :
           fn' = [op |-> "caa", releases |-> rs, res |-> provider_musicbrainz_caa(rs)]
    /\ UNCHANGED <<http, comp, wvars>>

\* Lines 601 and 609: the filter, then auto-pick on what it retains.
ApplyFilterPick ==
    /\ fn = FnIdle
    /\ \E cs \in PickInputs, al \in Albums, y \in QueryYears, tol \in Tolerances :
           LET kept == soft_year_filter(cs, y, tol)
           IN fn' = [op |-> "filterpick", cands |-> cs, album |-> al, year |-> y,
                     tol |-> tol, kept |-> kept,
                     out |-> maybe_autopick(al, y, kept, tol)]
    /\ UNCHANGED <<http, comp, wvars>>

\* The application is constructed and no run is started.
InitFn ==
    /\ fn = FnIdle
    /\ InitApp
    /\ http = HttpInit
    /\ comp = CompInit
    /\ cfg = [ask_always |-> FALSE, year_tolerance |-> 1,
               overwrite_existing |-> FALSE, providers |-> {"iTunes", "Deezer"},
               auto_pick |-> TRUE]

NextFn ==
    \/ ApplyDedup \/ ApplyFilter \/ ApplyAutopick \/ ApplySimilarity
    \/ ApplySlug \/ ApplyParseYear \/ ApplyCaa \/ ApplyFilterPick

SpecFn == InitFn /\ [][NextFn]_vars

----------------------------------------------------------------------------
(* Concurrent calls of the HTTP helpers. *)

NextHttp == H_Call \/ H_Test \/ H_Hit \/ H_Fetch \/ H_FetchFail \/ H_Store

SpecHttp == InitFn /\ [][NextHttp]_vars

----------------------------------------------------------------------------
(* Exports of the composer into an output folder that may hold files.      *)

InitComp ==
    /\ fn = FnIdle
    /\ InitApp
    /\ cfg = [ask_always |-> FALSE, year_tolerance |-> 1,
               overwrite_existing |-> FALSE, providers |-> {"iTunes", "Deezer"},
               auto_pick |-> TRUE]
    /\ http = HttpInit
    /\ comp \in {[CompInit EXCEPT !.fs = F] : F \in SUBSET CompSeed}

NextComp == C_Export \/ C_Delete

SpecComp == InitComp /\ [][NextComp]_vars

\* Processing runs of the composer that may overlap.
NextRuns == \E t \in CompRuns : P_Start(t) \/ P_Name(t) \/ P_Save(t)

\* The operations on the cover target rectangle.
NextRect ==
    \/ B_ChooseTemplate \/ B_Detect \/ B_EditManual \/ B_UseManual
    \/ B_CanvasDown \/ B_CanvasDrag \/ B_CanvasUp
    \/ B_SaveSession \/ B_LoadSession

SpecRect == InitFn /\ [][NextRect]_vars

InitRuns ==
    /\ InitComp
    /\ comp.fs \in {{}, CompSeed}

SpecRuns == InitRuns /\ [][NextRuns]_vars

----------------------------------------------------------------------------
(* Properties of the pure functions. *)

\* The subsequence of cs at the index set I, in increasing index order.
SubseqAt(cs, I) ==
    [k \in 1..Cardinality(I) |->
        cs[CHOOSE i \in I : Cardinality({j \in I : j <= i}) = k]]

FirstOccurrences(cs) ==
    {i \in 1..Len(cs) :
        /\ cs[i].image \notin {NoneUrl, ""}
        /\ \A j \in 1..(i - 1) : cs[j].image # cs[i].image}

\* C1: dedup_by_image returns exactly the subsequence of the first
\* occurrence of each distinct non-empty image URL: no two output entries
\* share a URL, input order is kept, and no entry without a URL is output.
C1_DedupFirstOccurrences ==
    fn.op = "dedup" =>
        /\ fn.out = SubseqAt(fn.cands, FirstOccurrences(fn.cands))
        /\ \A i, j \in 1..Len(fn.out) : i # j => fn.out[i].image # fn.out[j].image
        /\ \A i \in 1..Len(fn.out) : fn.out[i].image \notin {NoneUrl, ""}

\* A list with a repeated URL and an entry without URL was deduplicated.
C1_Witness ==
    /\ fn.op = "dedup"
    /\ \E i, j \in 1..Len(fn.cands) :
          i < j /\ fn.cands[i].image = "A" /\ fn.cands[j].image = "A"
                /\ fn.cands[i].title # fn.cands[j].title
    /\ \E i \in 1..Len(fn.cands) : fn.cands[i].image \in {NoneUrl, ""}
    /\ Len(fn.out) = 1

YearKept(c, Y, tol) ==
    c.year = None \/ Abs(Val(c.year) - Y) <= (IF tol < 0 THEN 0 ELSE tol)

\* C2: soft_year_filter returns its input when the target year is None, and
\* otherwise exactly the candidates, in input order, whose year is None or
\* within max(0, tol) of the target; a candidate without year always stays.
C2_SoftYearFilter ==
    fn.op = "filter" =>
        /\ fn.target = None => fn.out = fn.cands
        /\ fn.target # None =>
              fn.out = SubseqAt(fn.cands,
                         {i \in 1..Len(fn.cands) :
                             YearKept(fn.cands[i], Val(fn.target), fn.tol)})
        /\ \A i \in 1..Len(fn.cands) :
              fn.cands[i].year = None => \E k \in 1..Len(fn.out) : fn.out[k] = fn.cands[i]

\* A negative tolerance with a set target: one candidate dropped, an exact
\* year match and a candidate without year retained.
C2_Witness ==
    /\ fn.op = "filter"
    /\ fn.target = Some(2)
    /\ fn.tol < 0
    /\ Len(fn.cands) = 3
    /\ Len(fn.out) = 2
    /\ \E k \in 1..2 : fn.out[k].year = None
    /\ \E k \in 1..2 : fn.out[k].year = Some(2)

\* C3: _maybe_autopick never returns the URL of a candidate whose known year
\* differs from a known query year by more than the configured tolerance.
C3_AutopickYearSafe ==
    fn.op = "autopick" =>
        \A i \in 1..Len(fn.cands) :
            (fn.cands[i].image = fn.out /\ fn.year # None /\ fn.cands[i].year # None)
                => Abs(Val(fn.cands[i].year) - Val(fn.year)) <= fn.tol

YearValid(c, year, tol) ==
    ~(year # None /\ c.year # None /\ Abs(Val(c.year) - Val(year)) > tol)

ExpectedPick(album, year, cands, tol) ==
    LET Valid == {i \in 1..Len(cands) : YearValid(cands[i], year, tol)}
        Score(i) == title_similarity(IF album = None THEN Some(<<>>) ELSE album,
                                     cands[i].title)
        Top == {i \in Valid : \A j \in Valid : ScoreGE(Score(i), Score(j))}
    IN IF Valid = {} THEN NoneUrl
       ELSE LET first == CHOOSE i \in Top : \A j \in Top : i <= j
            IN IF Score(first)[1] * 100 >= 92 * Score(first)[2]
               THEN cands[first].image
               ELSE NoneUrl

\* C4: _maybe_autopick returns a URL only if the maximum similarity among
\* the year-valid candidates is at least 0.92, and then the URL of the first
\* candidate attaining that maximum; otherwise it returns no pick.
C4_AutopickThresholdFirstMax ==
    fn.op = "autopick" =>
        fn.out = ExpectedPick(fn.album, fn.year, fn.cands, fn.tol)

\* The same two statements for a query year other than 0.
C3_NonZeroYear == (fn.op = "autopick" /\ fn.year # Some(0)) => C3_AutopickYearSafe
C4_NonZeroYear == (fn.op = "autopick" /\ fn.year # Some(0)) => C4_AutopickThresholdFirstMax

----------------------------------------------------------------------------
(* Properties of the resolution loop. *)

Range(s) == {s[i] : i \in 1..Len(s)}
Last(s) == s[Len(s)]

\* The candidates returned in the current round by the providers that did
\* not raise, in completion order.
RECURSIVE OkCandidates(_)
OkCandidates(ps) ==
    IF ps = <<>> THEN <<>>
    ELSE (IF Head(ps).ok THEN Head(ps).part ELSE <<>>) \o OkCandidates(Tail(ps))

\* The worker leaves the collection of a round: filtering and selection.
DecideStep == w.pc = "collect" /\ w'.pc # "collect"

\* The callbacks a worker step has added to the queue.
NewCallbacks == SubSeq(queue', Len(queue) + 1, Len(queue'))
AskAdded == \E i \in 1..Len(NewCallbacks) : NewCallbacks[i].k = "ask"

Joined == w.pc = "collect" /\ w.jobs = {}

C5_Case(i) ==
    /\ Joined
    /\ ~cfg.ask_always
    /\ w.yr_int # None
    /\ LET c == w.candidates[i]
           Y == Val(w.yr_int)
           t == cfg.year_tolerance
       IN /\ c.title = Some(w.album)
          /\ c.image \notin {NoneUrl, ""}
          /\ c.year # None /\ Abs(Val(c.year) - Y) <= t
          /\ \A j \in 1..Len(w.candidates) :
                j # i => /\ w.candidates[j].year # None
                         /\ Abs(Val(w.candidates[j].year) - Y) > t

\* C5: with "always ask" off, when one returned candidate has the query
\* album as title and a year within the tolerance, and every other returned
\* candidate has a known year outside the tolerance, the round keeps only
\* that candidate and resolves the item to its URL without escalation.
C5_SoleYearValidResolved ==
    [][\A i \in 1..Len(w.candidates) :
          (C5_Case(i) /\ w' # w) =>
              /\ w'.candidates = <<w.candidates[i]>>
              /\ w'.pc = "save"
              /\ w'.url = w.candidates[i].image
              /\ queue' = queue]_vars

\* iTunes returned A (year 2) and B (year 4) for the query year 2 with
\* tolerance 1; B was filtered and A is about to be saved.
C5_Witness ==
    /\ w.pc = "save"
    /\ ~cfg.ask_always
    /\ cfg.year_tolerance = 1
    /\ w.yr_int = Some(2)
    /\ OkCandidates(parts) = <<iA, iB>>
    /\ w.candidates = <<iA>>
    /\ w.url = "A"
    /\ \A i \in 1..Len(queue) : queue[i].k # "ask"

InProgress(i) ==
    w.pc \in {"collect", "wait", "wait_get", "save", "download"} /\ w.idx = i

Finished(i) == \E k \in 1..(w.pos - 1) : k <= Len(w.indices) /\ w.indices[k] = i

\* C6: every item the worker has taken up and left has exactly one terminal
\* status recorded in the run and nothing after it; the item in progress has
\* none yet; an item not taken up has no status of the run.
C6_OneTerminalStatus ==
    \A i \in 1..NRows :
        /\ (Finished(i) /\ ~InProgress(i)) =>
              /\ Len(hist[i]) = 2
              /\ hist[i][1] = "Searching..."
              /\ hist[i][2] \in TerminalStatuses
        /\ InProgress(i) => hist[i] = <<"Searching...">>
        /\ (~Finished(i) /\ ~InProgress(i)) => hist[i] = <<>>

\* The run is over; the first item was saved and the second one was found
\* on disk.
C6_Witness ==
    /\ w.pc = "dead"
    /\ hist[1] = <<"Searching...", "OK">>
    /\ hist[2] = <<"Searching...", "Exists - skipped">>

\* No collected candidate survives the year filter with an image URL.
NoUsable(cands, yr, tol) ==
    \A i \in 1..Len(cands) :
        \/ cands[i].image \in {NoneUrl, ""}
        \/ yr # None /\ ~YearKept(cands[i], Val(yr), tol)

C7_EmptyRound ==
    (Joined /\ NoUsable(w.candidates, w.yr_int, cfg.year_tolerance) /\ w' # w) =>
        /\ hist'[w.idx] = Append(hist[w.idx], "Not found")
        /\ w'.pc = "for"
        /\ files' = files
        /\ ~AskAdded

C7_NoProvider ==
    cfg.providers = {} =>
        \A i \in 1..NRows : Len(hist[i]) >= 2 => hist[i][2] = "Not found"

\* C7: a round whose filtered and deduplicated list is empty ends the item
\* as Not found, with no escalation and no download; with no provider
\* enabled every processed item ends as Not found.
C7_EmptyIsNotFound == [][C7_EmptyRound]_vars /\ []C7_NoProvider

\* Deezer returned a result without image URL and iTunes raised: the first
\* item ended as Not found.
C7_Witness ==
    /\ w.pc = "for"
    /\ w.pos = 2
    /\ hist[1] = <<"Searching...", "Not found">>
    /\ OkCandidates(parts) = <<dN>>
    /\ \E k \in 1..Len(parts) : ~parts[k].ok
    /\ files = InitFiles

C8_Collected ==
    w.pc = "collect" =>
        /\ w.candidates = OkCandidates(parts)
        /\ {parts[k].p : k \in 1..Len(parts)} \cup {j.p : j \in w.jobs} = cfg.providers
        /\ Len(parts) + Cardinality(w.jobs) = Cardinality(cfg.providers)

C8_Join == DecideStep => (w.jobs = {} /\ Len(parts) = Cardinality(cfg.providers))

C8_ErrorOnlyFromSave ==
    (\E i \in 1..NRows : hist'[i] # hist[i] /\ Last(hist'[i]) = "Error") =>
        w.pc = "download"

\* C8: whatever the completion order, the collected list is exactly what
\* the providers that did not raise returned, every submitted call is
\* joined before filtering starts, and a provider failure does not make the
\* item end in Error.
C8_ProviderFailureIsolated ==
    []C8_Collected /\ [][C8_Join /\ C8_ErrorOnlyFromSave]_vars

\* Deezer raised first, then iTunes returned two candidates; all joined.
C8_Witness ==
    /\ Joined
    /\ Len(parts) = 2
    /\ ~parts[1].ok /\ parts[1].p = "Deezer"
    /\ parts[2].ok /\ parts[2].part = <<iA, iB>>
    /\ w.candidates = <<iA, iB>>

\* C9: after a round without auto-pick the selector is asked iff there is
\* more than one candidate or "always ask" is on; one candidate with
\* "always ask" off is resolved to its URL without escalation; with "always
\* ask" on nothing is auto-picked and every resolution comes from the
\* selector.
C9_Round ==
    (DecideStep /\ w'.pc # "for") =>
        LET cs == w'.candidates
            picked == IF cfg.ask_always THEN NoneUrl
                      ELSE ExpectedPick(Some(w.album), w.yr_int, cs, cfg.year_tolerance)
        IN /\ picked = NoneUrl =>
                /\ (w'.pc = "wait" /\ AskAdded) <=> (Len(cs) > 1 \/ cfg.ask_always)
                /\ (Len(cs) = 1 /\ ~cfg.ask_always) =>
                      (w'.pc = "save" /\ w'.url = cs[1].image /\ ~AskAdded)
           /\ cfg.ask_always => (w'.pc = "wait" /\ AskAdded)

C9_AlwaysAsk ==
    (cfg.ask_always /\ w'.pc = "save" /\ w.pc # "save") =>
        /\ w.pc \in {"wait", "wait_get"}
        /\ reply = Some(UrlChoice(w'.url))

C9_EscalationRule == [][C9_Round /\ C9_AlwaysAsk]_vars

\* One candidate below the auto-pick threshold, "always ask" off: resolved
\* to that candidate without a dialog.
C9_Witness ==
    /\ w.pc = "save"
    /\ ~cfg.ask_always
    /\ w.candidates = <<dC>>
    /\ w.album = S_OK_Comp
    /\ w.url = "C"
    /\ w.retries = 0
    /\ \A i \in 1..Len(queue) : queue[i].k # "ask"
    /\ gui.dlg = None

\* The year a round works with: an edited year of 0 counts as no year.
RoundYear(y) == IF y = None \/ Val(y) = 0 THEN None ELSE y

C10_Retry ==
    (w.pc \in {"wait", "wait_get"} /\ reply # None /\ Val(reply).k = "retry" /\ w' # w) =>
        LET c == Val(reply)
        IN /\ w'.pc = "collect"
           /\ w'.idx = w.idx /\ w'.pos = w.pos
           /\ w'.artist = c.artist /\ w'.album = c.album
           /\ w'.year = IF c.year = None THEN YearNone ELSE YearInt(Val(c.year))
           /\ w'.yr_int = RoundYear(c.year)
           /\ w'.candidates = <<>>
           /\ parts' = <<>>
           /\ {j.p : j \in w'.jobs} = cfg.providers
           /\ \A j \in w'.jobs :
                 /\ j.artist = c.artist /\ j.album = c.album
                 /\ j.p = "CoverArtArchive" => j.year = RoundYear(c.year)

C10_Fresh ==
    w.pc \in {"wait", "wait_get", "save", "download"} =>
        /\ Range(w.candidates) \subseteq Range(OkCandidates(parts))
        /\ \A i \in 1..Len(queue) :
              queue[i].k = "ask" =>
                  Range(queue[i].candidates) \subseteq Range(OkCandidates(parts))
        /\ gui.dlg # None =>
              Range(Val(gui.dlg).candidates) \subseteq Range(OkCandidates(parts))
        /\ w.pc \in {"save", "download"} =>
              \E c \in Range(OkCandidates(parts)) : c.image = w.url

\* C10: a retry answer replaces the query and starts a new round for the
\* same item from an empty candidate list, with the providers queried for
\* the edited values; what is offered, auto-picked or saved was returned by
\* a provider in the current round.
C10_RetryStartsFreshRound == [][C10_Retry]_vars /\ []C10_Fresh

\* The second row (album "okcom", no year) was retried as "OK Comp" / 2 and
\* the new round resolved it to A.
C10_Witness ==
    /\ w.idx = 2
    /\ w.retries = 1
    /\ w.pc = "save"
    /\ w.album = S_OK_Comp
    /\ w.yr_int = Some(2)
    /\ OkCandidates(parts) = <<iA>>
    /\ w.url = "A"

----------------------------------------------------------------------------
(* Properties of the answer to an escalation, of cancellation, of the      *)
(* order of the items, of per-item errors and of existing files.           *)

\* The worker takes its choice from result_q in this step (line 622).
TakesChoice ==
    \/ w.pc = "wait" /\ reply # None /\ w' # w
    \/ w.pc = "wait_get" /\ w' # w

\* The value of choice at line 622.
Choice == IF reply # None THEN Val(reply) ELSE NoChoice

Written(path, url) ==
    [p \in DOMAIN files \cup {path} |-> IF p = path THEN url ELSE files[p]]

C11_Url ==
    (TakesChoice /\ Choice.k = "url") =>
        /\ w'.pc = "save"
        /\ w'.url = Choice.url
        /\ w'.idx = w.idx
        /\ files' = files
        /\ hist' = hist

C11_Nothing ==
    (TakesChoice /\ Choice.k = "none") =>
        /\ hist'[w.idx] = Append(hist[w.idx], "Skipped")
        /\ w'.pc = "for"
        /\ w'.pos = w.pos + 1
        /\ files' = files
        /\ \A i \in 1..Len(NewCallbacks) : NewCallbacks[i] # CbLog("Downloading")

C11_Saved ==
    (w.pc \in {"save", "download"} /\ w' # w) =>
        /\ w'.pc = "download" => w'.url = w.url
        /\ files' # files =>
              /\ w.pc = "download"
              /\ files' = Written(CurrentPath, w.url)
              /\ Last(hist'[w.idx]) = "OK"

\* C11: a URL the worker receives as the answer to an escalation is the URL
\* the item goes to the save step with, and the only thing downloaded and
\* written for it; an empty answer ends the item as Skipped with nothing
\* downloaded or written.
C11_AnswerDecides == [][C11_Url /\ C11_Nothing /\ C11_Saved]_vars

\* With "always ask" on, the first item was skipped in the dialog and B was
\* chosen for the second one and saved.
C11_Witness ==
    /\ cfg.ask_always
    /\ hist[1] = <<"Searching...", "Skipped">>
    /\ hist[2] = <<"Searching...", "OK">>
    /\ \E p \in DOMAIN files : files[p] = "B"
    /\ w.pc = "for"

C12_Step ==
    stop_flag =>
        \A i \in 1..NRows :
            /\ hist[i] = <<>> => hist'[i] = <<>>
            /\ Len(hist[i]) = 2 => hist'[i] = hist[i]
            /\ tree[i] \in TerminalStatuses => tree'[i] = tree[i]

\* C12: while the stop flag is set no item is taken up, and neither the
\* status recorded for a finished item nor a terminal status shown in its
\* row changes.
C12_CancelStopsNewItems == [][C12_Step]_vars

\* The run was stopped during the first item: it got its status, the
\* second item was never taken up and the thread has returned.
C12_Witness ==
    /\ stop_flag
    /\ w.pc = "dead"
    /\ Len(hist[1]) = 2
    /\ tree[1] \in TerminalStatuses
    /\ hist[2] = <<>>
    /\ tree[2] = ""

Skips ==
    /\ hist'[w.idx] = Append(hist[w.idx], "Skipped")
    /\ w'.pc = "for"
    /\ files' = files

\* C13 as stated: once the worker has left the wait because the stop flag
\* was set and result_q was empty, the item ends as Skipped and nothing is
\* written.
C13_CancelledWaitSkips == [][(w.pc = "wait_get" /\ w' # w) => Skips]_vars

C13_Leave ==
    (w.pc = "wait" /\ stop_flag /\ reply = None /\ w' # w) =>
        /\ w'.pc = "wait_get"
        /\ queue' = queue /\ hist' = hist /\ files' = files

C13_Final ==
    (w.pc = "wait_get" /\ w' # w) =>
        /\ reply = None => Skips
        /\ (reply # None /\ Val(reply).k = "url") =>
              (w'.pc = "save" /\ w'.url = Val(reply).url)
        /\ (reply # None /\ Val(reply).k = "retry") => w'.pc = "collect"
        /\ reply' = None

\* With the stop flag set the worker never sleeps in the wait: result_q is
\* read only when it is not empty, and an empty one is left at once.
C13_NoBlock ==
    (stop_flag /\ w.pc \in {"wait", "wait_get"}) =>
        IF w.pc = "wait" /\ reply = None THEN ENABLED W_WaitStopped
        ELSE IF w.pc = "wait" THEN ENABLED W_GotReply
        ELSE ENABLED W_GetAfterStop

\* C13 amended: the wait is left without sleeping again; if result_q is
\* still empty when it is read at line 622 the item ends as Skipped with
\* nothing written, and a reply that arrived in between is acted on.
C13_InterruptibleWait == [][C13_Leave /\ C13_Final]_vars /\ []C13_NoBlock

\* The stop flag ended the wait of an item whose dialog was never answered.
C13_Witness ==
    /\ stop_flag
    /\ w.pc = "for"
    /\ w.idx \in 1..NRows
    /\ Len(hist[w.idx]) = 2
    /\ Last(hist[w.idx]) = "Skipped"
    /\ reply = None
    /\ \/ gui.pc = "dialog"
       \/ \E i \in 1..Len(queue) : queue[i].k = "ask"

C14_OneWorker == w'.run # w.run => ~WorkerAlive

C14_InOrder ==
    \A i \in 1..NRows :
        (hist[i] = <<>> /\ hist'[i] # <<>>) =>
            /\ w.pos <= Len(w.indices) /\ i = w.indices[w.pos]
            /\ \A k \in 1..(w.pos - 1) :
                  /\ Len(hist[w.indices[k]]) = 2
                  /\ Last(hist[w.indices[k]]) \in TerminalStatuses
            /\ \A k \in (w.pos + 1)..Len(w.indices) : hist[w.indices[k]] = <<>>

C14_OneAtATime == Cardinality({i \in 1..NRows : Len(hist[i]) = 1}) <= 1

\* C14: a worker thread is started only while none is alive, the items are
\* taken up in the order of the index list, each after the previous one got
\* its terminal status, and at most one item is in progress.
C14_SequentialSingleWorker ==
    [][C14_OneWorker /\ C14_InOrder]_vars /\ []C14_OneAtATime

\* The worker of the first run is at the second item, the first has its
\* terminal status, and the GUI thread is in its event loop where a start
\* request can be made.
C14_Witness ==
    /\ w.run = 1
    /\ w.pc = "collect"
    /\ w.idx = 2
    /\ Len(hist[1]) = 2
    /\ hist[2] = <<"Searching...">>
    /\ gui.pc = "scheduled"

C15_Caught ==
    \A i \in 1..NRows :
        (hist'[i] # hist[i] /\ Last(hist'[i]) = "Error") =>
            /\ i = w.idx
            /\ w'.pc = "for" /\ w'.pos = w.pos + 1
            /\ \A j \in 1..NRows : j # i => hist'[j] = hist[j]
            /\ files' = files

C15_Download ==
    (w.pc = "download" /\ w' # w) =>
        /\ Last(hist'[w.idx]) \in {"OK", "Error"}
        /\ w'.pc = "for"

C15_GoesOn ==
    (w.pc = "for" /\ w.pos <= Len(w.indices) /\ ~stop_flag /\ w' # w) =>
        /\ w'.pc = "collect"
        /\ w'.idx = w.indices[w.pos]

C15_All ==
    w.pc \in {"exit", "dead"} =>
        \/ stop_flag
        \/ \A k \in 1..Len(w.indices) : Len(hist[w.indices[k]]) = 2

\* C15: an exception of the download or the file write gives the item the
\* status Error and touches no other item; the loop goes on with the next
\* index, and a thread that returns without the stop flag set has given
\* every item of the run its terminal status.
C15_ErrorIsPerItem ==
    [][C15_Caught /\ C15_Download /\ C15_GoesOn]_vars /\ []C15_All

\* The download of the first item raised, the second item was processed
\* nevertheless, nobody stopped the run.
C15_Witness ==
    /\ ~stop_flag
    /\ w.pc = "dead"
    /\ hist[1] = <<"Searching...", "Error">>
    /\ Len(hist[2]) = 2
    /\ hist[2][2] # "Not found"

C16_Check ==
    (w.pc = "save" /\ w' # w) =>
        IF CurrentPath \in DOMAIN files /\ ~cfg.overwrite_existing
        THEN /\ hist'[w.idx] = Append(hist[w.idx], "Exists - skipped")
             /\ w'.pc = "for"
             /\ files' = files
             /\ \A i \in 1..Len(NewCallbacks) : NewCallbacks[i] # CbLog("Downloading")
        ELSE /\ w'.pc = "download"
             /\ hist' = hist

C16_Write ==
    files' # files =>
        /\ w.pc = "download"
        /\ CurrentPath \notin DOMAIN files \/ cfg.overwrite_existing
        /\ DOMAIN files' = DOMAIN files \cup {CurrentPath}
        /\ \A p \in DOMAIN files : p # CurrentPath => files'[p] = files[p]

C16_Kept ==
    ~cfg.overwrite_existing =>
        \A p \in DOMAIN InitFiles : p \in DOMAIN files /\ files[p] = InitFiles[p]

\* C16: an existing target without "overwrite" ends the item as Exists -
\* skipped with no download and no change of the files; a file is written
\* only at a path that did not exist at the check or with "overwrite" on,
\* and without "overwrite" the files found at the start are never changed.
C16_ExistingFilePolicy == [][C16_Check /\ C16_Write]_vars /\ []C16_Kept

\* Without "overwrite": the cover of the first item was written, the one of
\* the second item was found on disk and left as it was.
C16_Witness ==
    /\ ~cfg.overwrite_existing
    /\ w.pc = "for"
    /\ w.pos = 3
    /\ hist[1][2] = "OK"
    /\ hist[2][2] = "Exists - skipped"
    /\ files[Path(S_Rock, S_Artist, S_okcom, None, ".jpg")] = "old"
    /\ Cardinality(DOMAIN files) = 2

----------------------------------------------------------------------------
(* Properties of the HTTP caches. *)

SameRequest(r1, r2) ==
    /\ r1.kind = r2.kind
    /\ r1.url = r2.url
    /\ ParamsOrEmpty(r1.params) = ParamsOrEmpty(r2.params)

C17_Returns ==
    \A t \in HttpThreads :
        http.th[t].pc = "done" =>
            /\ http.th[t].ret # None
            /\ SameRequest(Val(http.th[t].ret).for, Val(http.th[t].req))
            /\ Val(http.th[t].ret).ver \in 1..http.n

C17_Entries ==
    /\ \A k \in DOMAIN http.json :
          /\ http.json[k].for.kind = "json"
          /\ JsonKey(http.json[k].for.url, http.json[k].for.params) = k
          /\ http.json[k].ver \in 1..http.n
    /\ \A k \in DOMAIN http.bytes :
          /\ http.bytes[k].for.kind = "bytes"
          /\ http.bytes[k].for.url = k
          /\ http.bytes[k].ver \in 1..http.n

RECURSIVE CallsOf(_)
CallsOf(T) ==
    IF T = {} THEN 0
    ELSE LET t == CHOOSE x \in T : TRUE IN http.th[t].calls + CallsOf(T \ {t})

\* A call fetches at most once, whatever the other calls do.
C17_FetchesBounded == http.n <= CallsOf(HttpThreads)

\* C17: under every interleaving a finished call has returned a value that
\* was fetched for its own URL and parameters, each cache entry holds a
\* value fetched for a request with that key, and a race costs no more than
\* one fetch per call.
C17_CacheRaceIsRedundantFetch == C17_Returns /\ C17_Entries /\ C17_FetchesBounded

\* Two threads raced on one key: both fetched, both returned their own
\* value, one entry is cached.
C17_Witness ==
    /\ http.n = 2
    /\ \A t \in HttpThreads : http.th[t].pc = "done"
    /\ http.th[1].key = http.th[2].key
    /\ Val(http.th[1].req).params # Val(http.th[2].req).params
    /\ Val(http.th[1].ret).ver # Val(http.th[2].ret).ver
    /\ Cardinality(DOMAIN http.json) = 1

----------------------------------------------------------------------------
(* Properties of the composer's file names. *)

Exported == comp'.n = comp.n + 1

\* C18: the path an export is written to, auto-named or not, did not exist
\* when it was chosen, and every file that existed is still there.
C18_NeverOverwrites ==
    [][Exported =>
          /\ Val(comp'.last).path \notin comp.fs
          /\ comp'.fs = comp.fs \cup {Val(comp'.last).path}]_vars

\* An auto-named export passed over the existing album_R_02.png and was
\* written as album_R_03.png.
C18_Witness ==
    /\ comp.n = 2
    /\ comp.dels = 0
    /\ comp.last # None
    /\ Val(comp.last).auto
    /\ Val(comp.last).path = [dir |-> <<>>, name |-> AlbumName(<<"R">>, 3, 2)]
    /\ [dir |-> <<>>, name |-> AlbumName(<<"R">>, 2, 2)] \in comp.fs
    /\ [dir |-> <<>>, name |-> AlbumName(<<"R">>, 1, 2)] \in comp.fs

\* The number carried by a file name album_<genre>_<number>.png, or None.
ExportNumber(name, genre) ==
    LET pre == S_album \o genre \o <<"_">>
        num == SubSeq(name, Len(pre) + 1, Len(name) - Len(S_png))
    IN IF /\ Len(name) > Len(pre) + Len(S_png)
          /\ SubSeq(name, 1, Len(pre)) = pre
          /\ SubSeq(name, Len(name) - Len(S_png) + 1, Len(name)) = S_png
          /\ IsDigitStr(num)
       THEN Some(StrToInt(num))
       ELSE None

HighestExport(names, genre) ==
    LET nums == {Val(ExportNumber(nm, genre)) :
                    nm \in {x \in names : ExportNumber(x, genre) # None}}
    IN IF nums = {} THEN 0 ELSE CHOOSE n \in nums : \A m \in nums : m <= n

\* C19: the number of an auto-named export is one more than the highest
\* number carried by an existing file album_<genre>_<number>.png of its
\* directory.
C19_AutoIncrement ==
    [][(Exported /\ Val(comp'.last).auto) =>
          LET l == Val(comp'.last)
          IN ExportNumber(l.path.name, l.genre)
                = Some(HighestExport(FilesIn(comp.fs, l.path.dir), l.genre) + 1)]_vars

----------------------------------------------------------------------------
(* Properties of title_similarity. *)

\* C20: title_similarity(a, b) = title_similarity(b, a).
C20_Symmetric == fn.op = "similarity" => ScoreEQ(fn.ab, fn.ba)

IsEmptyTitle(x) == x = None \/ Val(x) = <<>>

\* C21: title_similarity(x, x) is 1.0 for every non-empty x, one without
\* letters or digits included, and title_similarity is 0.0 whenever one of
\* the two arguments is empty or absent.
C21_SelfAndEmpty ==
    fn.op = "similarity" =>
        /\ (fn.a = fn.b /\ ~IsEmptyTitle(fn.a)) => ScoreEQ(fn.ab, One)
        /\ (IsEmptyTitle(fn.a) \/ IsEmptyTitle(fn.b)) => fn.ab = Zero

\* "!!" compared with itself: both stripped strings are empty.
C21_Witness ==
    /\ fn.op = "similarity"
    /\ fn.a = Some(S_bang) /\ fn.b = Some(S_bang)
    /\ StripNonAlnum(Lower(Val(fn.a))) = <<>>
    /\ ScoreEQ(fn.ab, One)

----------------------------------------------------------------------------
(* Properties of slug. *)

PathSeparators == {"/", "\\"}

\* The trimmed input with every path separator and every run of whitespace
\* turned into one underscore each and every other character outside
\* [A-Za-z0-9._+-] dropped.
Sanitized(s) ==
    LET m == [i \in 1..Len(s) |->
                IF s[i] \in Whitespace
                THEN (IF i > 1 /\ s[i - 1] \in Whitespace THEN "" ELSE "_")
                ELSE IF s[i] \in PathSeparators THEN "_"
                ELSE IF s[i] \in SlugAllowed THEN s[i]
                ELSE ""]
    IN SelectSeq(m, IsKept)

Prefix(s, n) == SubSeq(s, 1, IF Len(s) < n THEN Len(s) ELSE n)

\* C22: slug returns at most 180 characters, all of [A-Za-z0-9._+-] (so no
\* "/" and no whitespace); the input is trimmed and each path separator and
\* each run of whitespace in it becomes an underscore instead of vanishing.
C22_SlugContract ==
    fn.op = "slug" =>
        /\ Len(fn.out) <= 180
        /\ \A i \in 1..Len(fn.out) : fn.out[i] \in SlugAllowed
        /\ fn.out = Prefix(Sanitized(Strip(IF fn.s = None THEN <<>> ELSE Val(fn.s))), 180)

----------------------------------------------------------------------------
(* Properties of parse_year_from_date. *)

DecimalDigits == {"0", "1", "2", "3", "4", "5", "6", "7", "8", "9"}

\* C23: the result is the number written by the first four characters when
\* these are four digits, and None in every other case, whatever follows.
C23_LeadingYearOnly ==
    fn.op = "parse_year" =>
        LET s == IF fn.d = None THEN <<>> ELSE Val(fn.d)
        IN IF Len(s) >= 4 /\ \A i \in 1..4 : s[i] \in DecimalDigits
           THEN fn.out = Some(1000 * DigitVal(s[1]) + 100 * DigitVal(s[2])
                              + 10 * DigitVal(s[3]) + DigitVal(s[4]))
           ELSE fn.out = None

\* "199119": the year is 1991, the digits that follow are not read.
C23_Witness ==
    /\ fn.op = "parse_year"
    /\ fn.d = Some(<<"1", "9", "9", "1", "1", "9">>)
    /\ fn.out = Some(1991)

----------------------------------------------------------------------------
(* Properties of provider_musicbrainz_caa. *)

\* The variants fetched for release i, in order, and their results.
TriedFor(res, i) ==
    LET IsMine(x) == x[1] = i IN SelectSeq(res.tried, IsMine)

\* The variants of release i are fetched in order, each one only after all
\* earlier ones failed to verify, and none is left out before one verifies.
TriedUntilVerified(rs, res, i) ==
    LET tr == TriedFor(res, i)
    IN /\ Len(tr) >= 1 /\ Len(tr) <= Len(CaaSuffixes)
       /\ \A k \in 1..Len(tr) : tr[k][2] = k
       /\ \A k \in 1..(Len(tr) - 1) : ~Verified(tr[k][3])
       /\ Len(tr) < Len(CaaSuffixes) => Verified(tr[Len(tr)][3])

\* Release i has a verified variant.
HasVerified(res, i) ==
    \E k \in 1..Len(res.tried) : res.tried[k][1] = i /\ Verified(res.tried[k][3])

FirstVerified(res, i) ==
    LET K == {k \in 1..Len(res.tried) :
                res.tried[k][1] = i /\ Verified(res.tried[k][3])}
    IN res.tried[CHOOSE k \in K : \A j \in K : k <= j][2]

\* C24: a failed or too small verification fetch ends neither the release
\* nor the call: every release with an id has its variants tried until one
\* verifies, it contributes the candidate of that variant and no other, and
\* a release without a verified variant contributes nothing.
C24_VerificationIsolated ==
    fn.op = "caa" =>
        LET rs == fn.releases
            res == fn.res
            WithId == {i \in 1..Len(rs) : rs[i].id # None}
        IN /\ \A i \in WithId : TriedUntilVerified(rs, res, i)
           /\ \A k \in 1..Len(res.tried) : res.tried[k][1] \in WithId
           /\ Len(res.src) = Len(res.out)
           /\ \A a, b \in 1..Len(res.src) : a < b => res.src[a] < res.src[b]
           /\ \A i \in 1..Len(rs) :
                  (\E a \in 1..Len(res.src) : res.src[a] = i)
                      <=> (i \in WithId /\ HasVerified(res, i))
           /\ \A a \in 1..Len(res.src) :
                  res.out[a].image =
                      <<Val(rs[res.src[a]].id), CaaSuffixes[FirstVerified(res, res.src[a])]>>

\* The first release fails on every variant (one fetch raises, two are too
\* small) and the second is verified on its second variant.
C24_Witness ==
    /\ fn.op = "caa"
    /\ Len(fn.releases) = 2
    /\ fn.releases[1].id = Some("m1") /\ fn.releases[2].id = Some("m2")
    /\ fn.res.tried = <<<<1, 1, Raise>>, <<1, 2, Some(MIN_BYTES)>>,
                         <<1, 3, Some(MIN_BYTES)>>, <<2, 1, Raise>>,
                         <<2, 2, Some(MIN_BYTES + 1)>>>>
    /\ Len(fn.res.out) = 1
    /\ fn.res.out[1].image = <<"m2", "front">>

----------------------------------------------------------------------------
(* The "Auto-pick when confident" option. *)

\* C25: with "Auto-pick when confident" off, a round that ends with more
\* than one candidate is never resolved by the worker itself: the selector
\* is asked.
C25_Step ==
    (DecideStep /\ ~cfg.auto_pick /\ w'.pc # "for" /\ Len(w'.candidates) > 1) =>
        (w'.pc = "wait" /\ AskAdded)

C25_AutoPickOffEscalates == [][C25_Step]_vars

----------------------------------------------------------------------------
(* Delivery of the worker's callbacks. *)

\* No timer is pending and the worker has ended: _poll_queue will not run
\* again for this run.
PollingStopped == gui.pc = "idle" /\ w.pc = "dead"

\* C26: whatever the order of the worker's last puts, its end and the polls
\* of the GUI thread, once polling has stopped every callback has been run:
\* the queue is empty and every row the worker gave a status shows the last
\* one.
C26_AllCallbacksDelivered ==
    PollingStopped =>
        /\ queue = <<>>
        /\ \A i \in 1..NRows : hist[i] # <<>> => tree[i] = Last(hist[i])

----------------------------------------------------------------------------
(* Termination after a cancel.                                             *)
(*                                                                         *)
(* The run under fair scheduling of the worker thread: a step of the       *)
(* worker that stays possible is eventually taken (its blocking calls      *)
(* carry timeouts, lines 79, 103, 218, 650).  For the step that follows    *)
(* the join of the provider jobs the condition is written on its guard:    *)
(* W_Decide is possible exactly when Joined holds and every W_Decide step  *)
(* ends Joined.  Nothing is assumed of the GUI thread and of the user.     *)
(* The options are the defaults, with "Always ask" on or off.              *)

WorkerFairness ==
    /\ WF_vars(W_TakeItem) /\ WF_vars(W_Stopped) /\ WF_vars(W_Finish)
    /\ WF_vars(W_Exit)
    /\ WF_vars(W_CollectResult) /\ WF_vars(W_CollectError)
    /\ []<>~Joined
    /\ WF_vars(W_GotReply) /\ WF_vars(W_WaitStopped) /\ WF_vars(W_GetAfterStop)
    /\ WF_vars(W_CheckExisting) /\ WF_vars(W_Saved) /\ WF_vars(W_DownloadError)

InitLive ==
    /\ Init
    /\ cfg.year_tolerance = 1 /\ ~cfg.overwrite_existing /\ cfg.auto_pick
    /\ cfg.providers = {"iTunes", "Deezer"}

SpecLive == InitLive /\ [][Next]_vars /\ WorkerFairness

\* C27: once the stop flag is set the worker thread ends, wherever it is in
\* the run and whether or not the selector ever answers.
C27_CancelTerminates == stop_flag ~> (w.pc = "dead")

\* The flag was set while the worker waited for the selector; the dialog is
\* still open and unanswered, and the worker has ended.
C27_Witness ==
    /\ stop_flag
    /\ w.pc = "dead"
    /\ gui.pc = "dialog"
    /\ reply = None
    /\ \E i \in 1..NRows : hist[i] # <<>> /\ Last(hist[i]) = "Skipped"

----------------------------------------------------------------------------
(* The year filter followed by auto-pick. *)

\* C28: what soft_year_filter retains for a query year and a configured
\* tolerance is not rejected for its year by _maybe_autopick with the same
\* year and tolerance: the pick among the retained candidates is the one
\* made without looking at years.
C28_FilterAndPickAgree ==
    fn.op = "filterpick" =>
        fn.out = ExpectedPick(fn.album, None, fn.kept, fn.tol)

----------------------------------------------------------------------------
(* Overlapping processing runs of the composer. *)

\* C29: whatever the interleaving of the name checks and the saves of two
\* runs, no two composed images are written to the same path, and no two
\* runs hold the same chosen path at the same time.
C29_RunsNeverCollide ==
    /\ \A i, j \in 1..Len(comp.saves) :
           i < j => comp.saves[i].path # comp.saves[j].path
    /\ \A s, t \in CompRuns :
           (s # t /\ comp.th[s].pc = "save" /\ comp.th[t].pc = "save")
               => comp.th[s].path # comp.th[t].path

----------------------------------------------------------------------------
(* The cover target rectangle. *)

\* C30: blue_rect is unset or a rectangle with x1 > x0 and y1 > y0,
\* whichever of detection, manual entry, mouse drag and session load set it.
C30_RectWellFormed ==
    comp.blue_rect # None =>
        LET r == Val(comp.blue_rect) IN r[3] > r[1] /\ r[4] > r[2]

====
